---- MODULE Spec2Model ----
(***************************************************************************)
(* Offer pricing, offer stacking and order creation of the mtc_server      *)
(* backend.                                                                *)
(*                                                                         *)
(* Money is counted in ticks of 1/10000 currency unit, so that a whole-    *)
(* cent price reduced by a whole percent is still an integer; stored       *)
(* product prices, fixed offer prices and bulk amounts are whole cents.    *)
(***************************************************************************)
EXTENDS Integers, Sequences, FiniteSets, TLC

\* offers:    OfferCampaign collection, in the order the store returns it
\* products:  Product collection, product id -> document
\* branches:  Branch collection, branch id -> document
\* customers: Customer collection, customer id -> savedAddresses
\* orders:    Order collection (committed documents)
\* calls:     createOrder calls in flight, caller -> call frame
\* priced:    last answer of OfferService.calculateEffectivePrices
\* resolved:  last answer of OfferController.resolveRelevantOffers
\* served:    last answer of the public offer listings of OfferController
\* written:   last answer of the campaign write handlers of OfferController
\* located:   last answer of the location lookups: GeolocationService,
\*            BranchAssignmentService, getNearestBranch, resolveBanners
\* answered:  last answer of the order status handlers of OrderController
VARIABLES offers, products, branches, customers, orders, calls, priced, resolved, served,
          written, located, answered

vars == <<offers, products, branches, customers, orders, calls, priced, resolved, served,
          written, located, answered>>

-----------------------------------------------------------------------------
(* Values *)

NULL == -1          \* null / undefined of a numeric or date field
NoId == "none"      \* null / undefined of an ObjectId or string field
Malformed == "bad"  \* a string that is not a 24-hex ObjectId

Cent == 100         \* ticks per cent: Math.round(x * 100) / 100

Now == 2            \* new Date()

ProductIds == {"p1", "p2"}
CategoryIds == {"c1", "c2"}
BranchIds == {"b1", "b2"}
CityNames == {"riyadh"}

\* a campaign without geofence; a geofence carries its type, its radius, the
\* distance (m) of its centre from each place the requester may be at, and the
\* places its polygon contains
NoGeo == [type |-> "none", radiusMeters |-> NULL, distanceMeters |-> NULL, inside |-> {}]

Max(a, b) == IF a >= b THEN a ELSE b
Min(a, b) == IF a <= b THEN a ELSE b

\* Math.round(n / d) for n >= 0, d > 0 (halves round up)
MathRound(n, d) == (2 * n + d) \div (2 * d)

\* Math.round(x * 100) / 100
Round2(x) == MathRound(x, Cent) * Cent

SetMin(S) == CHOOSE x \in S : \A y \in S : x <= y

Range(s) == {s[i] : i \in DOMAIN s}

-----------------------------------------------------------------------------
(* OfferService.calculateEffectivePrices *)

\* offerQuery without its endsAt clause
offerQueryNoEnd(o, now) ==
  /\ o.isActive
  /\ (o.startsAt = NULL \/ o.startsAt <= now)

\* isActive: true, startsAt null or <= now, endsAt null or >= now
offerQuery(o, now) ==
  /\ o.isActive
  /\ (o.startsAt = NULL \/ o.startsAt <= now)
  /\ (o.endsAt = NULL \/ o.endsAt >= now)

\* the "global offers" clause: no branches, no cities, no geo, no legacy branch
globalCondition(o) ==
  /\ o.branches = {}
  /\ o.cities = {}
  /\ o.geo.type = "none"
  /\ o.branch = NoId

\* the $or of locationConditions built from branchId
locationConditions(o, branchId) ==
  \/ (branchId # NoId /\ (branchId \in o.branches \/ o.branch = branchId))
  \/ globalCondition(o)

\* the coverage $or of the find: item product, explicit product id, or any category
coverageQuery(o, productIds) ==
  \/ \E i \in DOMAIN o.items : o.items[i].product \in productIds
  \/ o.productIds \cap productIds # {}
  \/ o.categoryIds # {}

\* OfferCampaign.find(...): the stored campaigns that match, in store order
offersFound(store, productIds, branchId, now) ==
  SelectSeq(store, LAMBDA o : /\ offerQuery(o, now)
                              /\ locationConditions(o, branchId)
                              /\ coverageQuery(o, productIds))

\* offer.items.find(item => item.product && item.product._id == productId):
\* index of the first such item, 0 when there is none
directItem(offer, productId) ==
  LET hits == {i \in DOMAIN offer.items : offer.items[i].product = productId}
  IN IF hits = {} THEN 0 ELSE SetMin(hits)

\* product.category?.toString() compared with the campaign's category ids:
\* a populated category object stringifies to "[object Object]" and matches none
isInCategories(offer, product) ==
  /\ ~product.categoryPopulated
  /\ product.category \in offer.categoryIds

appliesToProduct(offer, product) ==
  \/ directItem(offer, product.id) # 0
  \/ product.id \in offer.productIds
  \/ isInCategories(offer, product)

\* perItemPrice looking at the entry's percent before its fixed price
perItemPricePercentFirst(item, originalPrice) ==
  IF item.percent # NULL /\ item.percent > 0
  THEN (originalPrice * (100 - item.percent)) \div 100
  ELSE IF item.offerPrice # NULL /\ item.offerPrice > 0 THEN item.offerPrice
       ELSE originalPrice

\* price of the direct item under perItem mode
perItemPrice(item, originalPrice) ==
  IF item.offerPrice # NULL /\ item.offerPrice > 0 THEN item.offerPrice
  ELSE IF item.percent # NULL /\ item.percent > 0
       THEN (originalPrice * (100 - item.percent)) \div 100
       ELSE originalPrice

\* bulk pricing for applyMode !== 'perItem'
bulkPrice(offer, originalPrice) ==
  IF offer.applyMode = "bulkPercent" /\ offer.bulkPercent # NULL /\ offer.bulkPercent # 0
  THEN (originalPrice * (100 - offer.bulkPercent)) \div 100
  ELSE IF offer.applyMode = "bulkAmount" /\ offer.bulkAmount # NULL /\ offer.bulkAmount # 0
       THEN Max(0, originalPrice - offer.bulkAmount)
       ELSE originalPrice

\* calculatedPrice of one offer for one product (the body of the for loop
\* up to the comparison)
calculatedPrice(offer, product) ==
  LET d == directItem(offer, product.id)
  IN IF offer.applyMode = "perItem"
     THEN IF d # 0 THEN perItemPrice(offer.items[d], product.price) ELSE product.price
     ELSE bulkPrice(offer, product.price)

\* "Use the best price (lowest) if multiple offers apply"
isBetterPrice(calculated, effectivePrice) == calculated < effectivePrice

\* considerOffer taking each applicable discount off the running price
considerOfferStacked(offer, product, acc) ==
  LET calc == calculatedPrice(offer, product)
  IN IF appliesToProduct(offer, product) /\ calc < product.price
     THEN LET price == Max(0, acc.effectivePrice - (product.price - calc))
              discount == product.price - price
              percent == MathRound(discount * 100, product.price)
          IN [effectivePrice |-> price,
              hasOffer |-> TRUE,
              offerDiscount |-> discount,
              offerPercent |-> percent,
              applicableOffers |-> Append(acc.applicableOffers,
                  [id |-> offer.id, discount |-> discount, percent |-> percent,
                   applyMode |-> offer.applyMode])]
     ELSE acc

\* one iteration of the for loop over the offers found
considerOffer(offer, product, acc) ==
  LET calc == calculatedPrice(offer, product)
  IN IF appliesToProduct(offer, product) /\ isBetterPrice(calc, acc.effectivePrice)
     THEN LET discount == product.price - calc
              percent == MathRound(discount * 100, product.price)
          IN [effectivePrice |-> calc,
              hasOffer |-> TRUE,
              offerDiscount |-> discount,
              offerPercent |-> percent,
              applicableOffers |-> Append(acc.applicableOffers,
                  [id |-> offer.id, discount |-> discount, percent |-> percent,
                   applyMode |-> offer.applyMode])]
     ELSE acc

RECURSIVE priceLoop(_, _, _, _)
priceLoop(found, i, product, acc) ==
  IF i > Len(found) THEN acc
  ELSE priceLoop(found, i + 1, product, considerOffer(found[i], product, acc))

\* the catch branch: products with their original prices
priceFallback(product) ==
  [id |-> product.id, originalPrice |-> product.price, effectivePrice |-> product.price,
   hasOffer |-> FALSE, offerDiscount |-> NULL, offerPercent |-> NULL,
   applicableOffers |-> <<>>]

\* the returned IProductWithOffer, from the state the for loop ends in
productWithOffer(product, acc) ==
  [id |-> product.id,
   originalPrice |-> product.price,
   effectivePrice |-> Round2(acc.effectivePrice),
   hasOffer |-> acc.hasOffer,
   offerDiscount |-> IF acc.hasOffer THEN Round2(acc.offerDiscount) ELSE NULL,
   offerPercent |-> IF acc.hasOffer THEN acc.offerPercent ELSE NULL,
   applicableOffers |-> IF acc.hasOffer THEN acc.applicableOffers ELSE <<>>]

\* calculateEffectivePrices([product], branchId) against the campaign store
calculateEffectivePrices(store, product, branchId, now) ==
  IF branchId = Malformed
  THEN priceFallback(product)       \* new ObjectId(branchId) throws
  ELSE CHOOSE r \in
         { productWithOffer(product, acc) :
             acc \in { priceLoop(offersFound(store, {product.id}, branchId, now), 1, product,
                          [effectivePrice |-> product.price, hasOffer |-> FALSE,
                           offerDiscount |-> 0, offerPercent |-> 0,
                           applicableOffers |-> <<>>]) } } : TRUE

\* the product spread with the pricing of its IProductWithOffer
withOfferPricing(product, w) ==
  [price |-> product.price,
   originalPrice |-> w.originalPrice,
   effectivePrice |-> w.effectivePrice,
   offerPrice |-> IF w.hasOffer THEN w.effectivePrice ELSE product.offerPrice,
   hasOffer |-> w.hasOffer]

\* applyOfferPricing(product, branchId): the product with its effective pricing
applyOfferPricing(store, product, branchId, now) ==
  CHOOSE r \in { withOfferPricing(product, w)
                   : w \in {calculateEffectivePrices(store, product, branchId, now)} } : TRUE

-----------------------------------------------------------------------------
(* Stored documents *)

mkOffer(id, vis, shape) ==
  [id |-> id,
   isActive |-> vis.isActive, startsAt |-> vis.startsAt, endsAt |-> vis.endsAt,
   branches |-> vis.branches, cities |-> vis.cities, geo |-> vis.geo, branch |-> vis.branch,
   priority |-> vis.priority, stackable |-> vis.stackable,
   applyMode |-> shape.applyMode, bulkPercent |-> shape.bulkPercent,
   bulkAmount |-> shape.bulkAmount, items |-> shape.items,
   productIds |-> shape.productIds, categoryIds |-> shape.categoryIds,
   createdBy |-> "admin"]

mkVis(isActive, startsAt, endsAt, brs, cities, branch, priority, stackable) ==
  [isActive |-> isActive, startsAt |-> startsAt, endsAt |-> endsAt,
   branches |-> brs, cities |-> cities, geo |-> NoGeo, branch |-> branch,
   priority |-> priority, stackable |-> stackable]

mkItem(product, offerPrice, percent) ==
  [product |-> product, offerPrice |-> offerPrice, percent |-> percent]

mkShape(applyMode, bulkPercent, bulkAmount, items, productIds, categoryIds) ==
  [applyMode |-> applyMode, bulkPercent |-> bulkPercent, bulkAmount |-> bulkAmount,
   items |-> items, productIds |-> productIds, categoryIds |-> categoryIds]

\* the Product documents of the model: p1 costs 9.99, p2 costs 20.00 with a
\* static offer price of 15.00
ProductDocs ==
  [p \in ProductIds |->
     IF p = "p1"
     THEN [id |-> p, price |-> 999 * Cent, offerPrice |-> NULL, category |-> "c1",
           isActive |-> TRUE, categoryPopulated |-> FALSE]
     ELSE [id |-> p, price |-> 2000 * Cent, offerPrice |-> 1500 * Cent, category |-> "c2",
           isActive |-> TRUE, categoryPopulated |-> FALSE]]

BranchDocs ==
  [b \in BranchIds |-> [id |-> b, isActive |-> TRUE, city |-> "riyadh"]]

\* validity and targeting of the campaigns of the pricing model: valid and
\* global, valid on the boundary dates, inactive, not started, expired,
\* targeted by legacy branch, by branch set, by city; and valid global ones
\* with another priority and stackable flag
PriceVisibilities ==
  { mkVis(TRUE, NULL, NULL, {}, {}, NoId, 0, FALSE),
    mkVis(TRUE, Now, Now, {}, {}, NoId, 0, FALSE),
    mkVis(FALSE, NULL, NULL, {}, {}, NoId, 0, FALSE),
    mkVis(TRUE, Now + 1, NULL, {}, {}, NoId, 0, FALSE),
    mkVis(TRUE, NULL, Now - 1, {}, {}, NoId, 0, FALSE),
    mkVis(TRUE, NULL, NULL, {}, {}, "b1", 0, FALSE),
    mkVis(TRUE, NULL, NULL, {"b1"}, {}, NoId, 5, FALSE),
    mkVis(TRUE, NULL, NULL, {}, {"riyadh"}, NoId, 0, FALSE),
    mkVis(TRUE, NULL, NULL, {}, {}, NoId, 5, TRUE) }

\* pricing modes and coverage of the campaigns of the pricing model
PriceShapes ==
  { mkShape("perItem", NULL, NULL, <<mkItem("p1", f, NULL)>>, {}, {})
      : f \in {NULL, 0, 500 * Cent, 2500 * Cent} }
  \cup
  { mkShape("perItem", NULL, NULL, <<mkItem("p1", f, pc)>>, {}, {})
      : f \in {NULL, 0, 500 * Cent}, pc \in {15, 50} }
  \cup
  { mkShape("bulkPercent", 15, NULL, its, pids, cids)
      : its \in {<<mkItem("p1", NULL, NULL)>>, <<mkItem("p2", NULL, NULL)>>},
        pids \in {{}}, cids \in {{}, {"c1"}} }
  \cup
  { mkShape("bulkPercent", bp, NULL, <<>>, {"p1"}, {}) : bp \in {NULL, 50} }
  \cup
  { mkShape("bulkAmount", NULL, ba, <<mkItem("p1", NULL, NULL), mkItem("p2", NULL, NULL)>>, {}, {})
      : ba \in {300 * Cent, 5000 * Cent} }

PriceOffers(id) ==
  { mkOffer(id, v, s) : v \in PriceVisibilities, s \in PriceShapes }

\* the branchId query parameter of a pricing request
BranchIdInputs == {NoId, "b1", "b2", Malformed}

NoAnswer == [state |-> "none"]

-----------------------------------------------------------------------------
(* The pricing requests (ProductController.getProduct and the createOrder  *)
(* pricing step both end in calculateEffectivePrices)                      *)

InitPrice ==
  /\ offers \in { <<a, b>> : a \in PriceOffers(1), b \in PriceOffers(2) }
  /\ products = ProductDocs
  /\ branches = BranchDocs
  /\ customers = <<>>
  /\ orders = {}
  /\ calls = <<>>
  /\ priced = NoAnswer
  /\ resolved = NoAnswer
  /\ served = NoAnswer
  /\ written = NoAnswer
  /\ located = NoAnswer
  /\ answered = NoAnswer

\* OfferService.calculateEffectivePrices([product], branchId), once per
\* behaviour: the product is handed over with its category as an id (createOrder) or populated
\* (ProductController.getProduct)
PriceProduct ==
  \E p \in ProductIds, b \in BranchIdInputs, pop \in BOOLEAN :
    LET product == [products[p] EXCEPT !.categoryPopulated = pop]
    IN /\ priced.state = "none"
       /\ priced' = [state |-> "done", product |-> product, branchId |-> b,
                     failed |-> (b = Malformed),
                     result |-> calculateEffectivePrices(offers, product, b, Now)]
       /\ UNCHANGED <<offers, products, branches, customers, orders, calls, resolved, served,
                      written, located, answered>>

NextPrice == PriceProduct

SpecPrice == InitPrice /\ [][NextPrice]_vars

-----------------------------------------------------------------------------
(* C1 - C3: the effective price *)

\* the stored campaigns that the query of the answered request finds and that
\* apply to its product
ApplicableTo(ans) ==
  {i \in DOMAIN offers :
     /\ offerQuery(offers[i], Now)
     /\ locationConditions(offers[i], ans.branchId)
     /\ appliesToProduct(offers[i], ans.product)}

CandidatePrices(ans) ==
  {calculatedPrice(offers[i], ans.product) : i \in ApplicableTo(ans)}

ClaimValid(o) ==
  o.isActive /\ (o.startsAt = NULL \/ o.startsAt <= Now) /\ (o.endsAt = NULL \/ o.endsAt >= Now)

ClaimEligible(o, branchId) ==
  \/ (branchId \in BranchIds /\ (branchId \in o.branches \/ branchId = o.branch))
  \/ (o.branches = {} /\ o.cities = {} /\ o.geo.type = "none" /\ o.branch = NoId)

ClaimCovers(o, product) ==
  \/ \E i \in DOMAIN o.items : o.items[i].product = product.id
  \/ product.id \in o.productIds
  \/ product.category \in o.categoryIds

Uncovered(ans) ==
  ~ \E i \in DOMAIN offers :
      /\ ClaimValid(offers[i])
      /\ ClaimEligible(offers[i], ans.branchId)
      /\ ClaimCovers(offers[i], ans.product)

ClaimPrice(o, product) ==
  LET entries == {i \in DOMAIN o.items : o.items[i].product = product.id}
      price == product.price
  IN CASE o.applyMode = "bulkPercent" ->
            IF o.bulkPercent = NULL THEN price
            ELSE (price * (100 - o.bulkPercent)) \div 100
       [] o.applyMode = "bulkAmount" ->
            IF o.bulkAmount = NULL THEN price
            ELSE IF price - o.bulkAmount > 0 THEN price - o.bulkAmount ELSE 0
       [] o.applyMode = "perItem" ->
            IF entries = {} THEN price
            ELSE LET e == o.items[SetMin(entries)]
                 IN IF e.offerPrice # NULL THEN e.offerPrice
                    ELSE IF e.percent # NULL THEN (price * (100 - e.percent)) \div 100
                    ELSE price

\* the same, a fixed price of 0 counting as not set
ClaimPricePositive(o, product) ==
  LET entries == {i \in DOMAIN o.items : o.items[i].product = product.id}
      price == product.price
  IN IF o.applyMode = "perItem" /\ entries # {} /\ o.items[SetMin(entries)].offerPrice = 0
     THEN LET e == o.items[SetMin(entries)]
          IN IF e.percent # NULL THEN (price * (100 - e.percent)) \div 100 ELSE price
     ELSE ClaimPrice(o, product)

TheOnlyApplicable(ans) == offers[CHOOSE i \in ApplicableTo(ans) : TRUE]

-----------------------------------------------------------------------------
(* BranchAssignmentService *)

MaxCallers == 2           \* concurrent createOrder calls
MaxQuantity == 2          \* quantity of a line item

Tolerance == 100          \* 0.01 currency unit, in ticks
OrderMaxDistanceKm == 10000
DefaultMaxDistanceKm == 100

NoLoc == "nowhere"

\* great-circle distances (km) from the device location, from the
\* IP-derived location and from the fallback location of private addresses
\* to the branches
DistanceKm ==
  [l \in {"dev", "ipl", "fallback"} |->
     [b \in BranchIds |->
        IF l = "dev" THEN (IF b = "b1" THEN 5 ELSE 150)
        ELSE IF l = "ipl" THEN (IF b = "b1" THEN 300 ELSE 120)
        ELSE (IF b = "b1" THEN 20 ELSE 60)]]

ActiveBranches == {b \in BranchIds : branches[b].isActive}

nearestOf(loc, candidates) ==
  IF candidates = {} THEN NoId
  ELSE CHOOSE b \in candidates : \A x \in candidates : DistanceKm[loc][b] <= DistanceKm[loc][x]

\* Branch.findOne({isActive, location: {$near, $maxDistance}}); null when the
\* query throws
findNearestBranchByCoordinates(loc, maxDistanceKm, queryOk) ==
  IF ~queryOk THEN NoId
  ELSE nearestOf(loc, {b \in ActiveBranches : DistanceKm[loc][b] <= maxDistanceKm})

\* linear scan over the active branches
findNearestBranchManual(loc) == nearestOf(loc, ActiveBranches)

\* the branch found for an IP address whose lookup gave ipLoc
findNearestBranchByIP(ipLoc, queryOk) ==
  IF ipLoc = NoLoc THEN NoId
  ELSE LET near == findNearestBranchByCoordinates(ipLoc, DefaultMaxDistanceKm, queryOk)
       IN IF near # NoId THEN near ELSE findNearestBranchManual(ipLoc)

\* the branch assignment with the two sources swapped: the IP address
\* first, the device coordinates only for a request without IP address
assignBranchIpFirst(data, ipLoc, queryOk) ==
  IF data.customerIpAddress # NoId
  THEN findNearestBranchByIP(ipLoc, queryOk)
  ELSE IF data.clientLocation # NoLoc
       THEN LET near == findNearestBranchByCoordinates(data.clientLocation, OrderMaxDistanceKm,
                                                       queryOk)
            IN IF near # NoId THEN near ELSE findNearestBranchManual(data.clientLocation)
       ELSE NoId

\* "Find nearest branch based on customer location" of createOrder
assignBranch(data, ipLoc, queryOk) ==
  IF data.clientLocation # NoLoc
  THEN LET near == findNearestBranchByCoordinates(data.clientLocation, OrderMaxDistanceKm, queryOk)
       IN IF near # NoId THEN near ELSE findNearestBranchManual(data.clientLocation)
  ELSE IF data.customerIpAddress # NoId
       THEN findNearestBranchByIP(ipLoc, queryOk)
       ELSE NoId

-----------------------------------------------------------------------------
(* OrderService.createOrder *)

Callers == 1 .. MaxCallers
CustomerIds == {"u1"}

Idle == [pc |-> "idle"]

\* productWithOffer.offerPrice || productWithOffer.price
chargedPrice(w) == IF w.offerPrice # NULL /\ w.offerPrice # 0 THEN w.offerPrice ELSE w.price

\* the order item pushed for a line, from its product and priced product
orderItemOf(item, product, w) ==
  [product |-> item.productId, price |-> product.price, offerPrice |-> w.offerPrice,
   quantity |-> item.quantity, unitPrice |-> chargedPrice(w),
   subtotal |-> chargedPrice(w) * item.quantity]

\* the body of "for (const item of orderData.items)" for one found product;
\* applyOfferPricing is called without branch or location
orderItem(item) ==
  CHOOSE r \in { orderItemOf(item, products[item.productId], w)
                   : w \in {applyOfferPricing(offers, products[item.productId], NoId, Now)} }
    : TRUE

RECURSIVE sumSubtotals(_, _)
sumSubtotals(orderItems, i) ==
  IF i > Len(orderItems) THEN 0
  ELSE orderItems[i].subtotal + sumSubtotals(orderItems, i + 1)

Abs(x) == IF x < 0 THEN 0 - x ELSE x

\* "Validate totals" accepting any total once the subtotal agrees
totalsMismatchSubtotalOnly(calculatedSubtotal, data) ==
  IF Abs(calculatedSubtotal - data.subtotal) > Tolerance THEN "Subtotal mismatch"
  ELSE "ok"

\* "Validate totals"
totalsMismatch(calculatedSubtotal, data) ==
  IF Abs(calculatedSubtotal - data.subtotal) > Tolerance THEN "Subtotal mismatch"
  ELSE IF Abs((calculatedSubtotal + data.shipping) - data.total) > Tolerance
       THEN "Total amount mismatch"
       ELSE "ok"

\* the first error of the validation steps of createOrder, "ok" when none
validationError(data, calculatedSubtotal) ==
  IF data.customerId \notin DOMAIN customers THEN "Customer not found"
  ELSE IF \E i \in DOMAIN data.items : data.items[i].productId \notin DOMAIN products
       THEN "Product not found"
  ELSE IF totalsMismatch(calculatedSubtotal, data) # "ok"
       THEN totalsMismatch(calculatedSubtotal, data)
  ELSE IF data.shippingAddress = "incomplete" THEN "field is required"
  ELSE "ok"

\* the index on orderNumber is not unique
orderNumberFreeNoIndex(n, c) == TRUE

\* unique index on orderNumber: no committed order and no order inserted by
\* another open transaction carries the number
orderNumberFree(n, c) ==
  /\ \A o \in orders : o.orderNumber # n
  /\ \A d \in Callers \ {c} : calls[d].pc \in {"address", "commit"} => calls[d].order.orderNumber # n

\* OrderSchema validation at save: quantity, subtotal, shipping and total minima
schemaValid(order) ==
  /\ order.subtotal >= 0 /\ order.shipping >= 0 /\ order.total >= 0
  /\ \A i \in DOMAIN order.items : order.items[i].quantity >= 1

\* createOrder up to "new Order(...)": the transaction starts, the customer
\* and the products are read, the prices are recomputed, the totals and the
\* address validated, the branch assigned and the order number counted.  The
\* submitted subtotal and total are the server's figures plus dSub and dTot.
createOrderData(c, shape, dSub, dTot, ipLoc, queryOk) ==
  /\ \E found \in {\A i \in DOMAIN shape.items : shape.items[i].productId \in DOMAIN products} :
     \E orderItems \in {IF found THEN [i \in DOMAIN shape.items |-> orderItem(shape.items[i])]
                                 ELSE <<>>} :
     \E calculatedSubtotal \in {sumSubtotals(orderItems, 1)} :
     \E data \in {[customerId |-> shape.customerId, items |-> shape.items,
                   shippingAddress |-> shape.shippingAddress,
                   subtotal |-> calculatedSubtotal + dSub,
                   shipping |-> shape.shipping,
                   total |-> calculatedSubtotal + shape.shipping + dTot,
                   saveInfo |-> shape.saveInfo,
                   customerIpAddress |-> shape.customerIpAddress,
                   clientLocation |-> shape.clientLocation]} :
     \E err \in {validationError(data, calculatedSubtotal)} :
     \E assignedBranch \in {IF err = "ok" THEN assignBranch(data, ipLoc, queryOk) ELSE NoId} :
       calls' = [calls EXCEPT ![c] =
                  [pc |-> IF err = "ok" THEN "saving" ELSE "aborted",
                   data |-> data,
                   error |-> err,
                   priced |-> (shape.customerId \in DOMAIN customers /\ found),
                   orderItems |-> orderItems,
                   calculatedSubtotal |-> calculatedSubtotal,
                   assignedBranch |-> assignedBranch,
                   ipLocation |-> IF err = "ok" /\ data.clientLocation = NoLoc
                                     /\ data.customerIpAddress # NoId
                                  THEN ipLoc ELSE NoLoc,
                   savedBefore |-> IF shape.customerId \in DOMAIN customers
                                   THEN customers[shape.customerId] ELSE {},
                   address |-> "none",
                   order |-> [orderNumber |-> Cardinality(orders) + 1,
                              customer |-> data.customerId,
                              branch |-> assignedBranch, items |-> orderItems,
                              subtotal |-> data.subtotal, shipping |-> data.shipping,
                              total |-> data.total, by |-> c,
                              status |-> "pending", deliveredAt |-> NULL,
                              notes |-> "none"]]]
  /\ UNCHANGED <<offers, products, branches, customers, orders, priced, resolved, served,
                 written, located, answered>>

\* a createOrder call arrives: any request body of Shapes, any difference of
\* SubDeltas and TotDeltas, any answer of the IP lookup and of the spatial query
createOrderBegin(c, Shapes, SubDeltas, TotDeltas) ==
  /\ calls[c].pc = "idle"
  /\ \E shape \in Shapes, dSub \in SubDeltas, dTot \in TotDeltas,
        ipLoc \in {NoLoc, "ipl"}, queryOk \in BOOLEAN :
       createOrderData(c, shape, dSub, dTot, ipLoc, queryOk)

\* order.save({ session }): schema validation and the unique orderNumber index
createOrderSave(c) ==
  /\ calls[c].pc = "saving"
  /\ LET f == calls[c]
     IN IF ~schemaValid(f.order)
        THEN calls' = [calls EXCEPT ![c].pc = "aborted", ![c].error = "ValidationError"]
        ELSE IF ~orderNumberFree(f.order.orderNumber, c)
        THEN calls' = [calls EXCEPT ![c].pc = "aborted", ![c].error = "duplicate key"]
        ELSE calls' = [calls EXCEPT ![c].pc = IF f.data.saveInfo THEN "address" ELSE "commit"]
  /\ UNCHANGED <<offers, products, branches, customers, orders, priced, resolved, served,
                 written, located, answered>>

\* AddressService.saveAddress, called without the session; its errors are
\* caught and logged ("Don't fail the order if address saving fails")
createOrderSaveAddress(c, dbOk) ==
  /\ calls[c].pc = "address"
  /\ LET f == calls[c]
         u == f.data.customerId
         isDuplicate == f.data.shippingAddress \in customers[u]
     IN IF isDuplicate \/ ~dbOk
        THEN /\ calls' = [calls EXCEPT ![c].pc = "commit", ![c].address = "failed"]
             /\ UNCHANGED customers
        ELSE /\ calls' = [calls EXCEPT ![c].pc = "commit", ![c].address = "saved"]
             /\ customers' = [customers EXCEPT ![u] = @ \cup {f.data.shippingAddress}]
  /\ UNCHANGED <<offers, products, branches, orders, priced, resolved, served, written,
                 located, answered>>

\* session.commitTransaction(); when it throws the catch block aborts
createOrderCommit(c, ok) ==
  /\ calls[c].pc = "commit"
  /\ IF ok
     THEN /\ orders' = orders \cup {calls[c].order}
          /\ calls' = [calls EXCEPT ![c].pc = "retrieve"]
     ELSE /\ calls' = [calls EXCEPT ![c].pc = "aborted", ![c].error = "commit failed"]
          /\ UNCHANGED orders
  /\ UNCHANGED <<offers, products, branches, customers, priced, resolved, served, written,
                 located, answered>>

\* getOrderById after the commit; a null answer throws, the catch block's
\* abortTransaction comes after the commit and undoes nothing
createOrderRetrieve(c, found) ==
  /\ calls[c].pc = "retrieve"
  /\ calls' = [calls EXCEPT ![c].pc = IF found THEN "returned" ELSE "failed",
                            ![c].error = IF found THEN "ok" ELSE "Failed to retrieve created order"]
  /\ UNCHANGED <<offers, products, branches, customers, orders, priced, resolved, served,
                 written, located, answered>>

-----------------------------------------------------------------------------
(* Order requests *)

mkLine(productId, quantity) == [productId |-> productId, quantity |-> quantity]

ItemLists ==
  { <<mkLine("p1", q)>> : q \in 1 .. MaxQuantity }
  \cup { <<mkLine("p2", 1)>>, <<mkLine("p1", 1), mkLine("p2", 1)>>, <<mkLine("gone", 1)>> }

\* where the request comes from: no location at all, an IP address only, or
\* device coordinates together with the IP address
Origins ==
  { [customerIpAddress |-> NoId, clientLocation |-> NoLoc],
    [customerIpAddress |-> "ip", clientLocation |-> NoLoc],
    [customerIpAddress |-> "ip", clientLocation |-> "dev"] }

\* the request bodies of the order model, without their subtotal and total:
\* every body of the known customer, and one of an unknown customer
OrderShapes ==
  { [customerId |-> "u1", items |-> its, shippingAddress |-> a, shipping |-> 1500 * Cent,
     saveInfo |-> si, customerIpAddress |-> og.customerIpAddress,
     clientLocation |-> og.clientLocation]
      : its \in ItemLists, a \in {"home", "incomplete"}, si \in BOOLEAN, og \in Origins }
  \cup
  { [customerId |-> "ghost", items |-> <<mkLine("p1", 1)>>, shippingAddress |-> "home",
     shipping |-> 1500 * Cent, saveInfo |-> FALSE, customerIpAddress |-> "ip",
     clientLocation |-> NoLoc] }

\* differences between the submitted and the server's subtotal, and total
SubtotalDeltas == {0 - 2 * Cent, 0 - Cent, 0, 2 * Cent}
TotalDeltas == {0 - 2 * Cent, 0, Cent}

\* the campaign stores of the order model: none, a global 50.00 off p1 and
\* p2, 15% off p1 for branch b1, a global 15% off p1
OrderOfferStores ==
  { <<>>,
    <<mkOffer(1, mkVis(TRUE, NULL, NULL, {}, {}, NoId, 0, FALSE),
              mkShape("bulkAmount", NULL, 5000 * Cent,
                      <<mkItem("p1", NULL, NULL), mkItem("p2", NULL, NULL)>>, {}, {}))>>,
    <<mkOffer(1, mkVis(TRUE, NULL, NULL, {}, {}, "b1", 0, FALSE),
              mkShape("bulkPercent", 15, NULL, <<mkItem("p1", NULL, NULL)>>, {}, {}))>>,
    <<mkOffer(1, mkVis(TRUE, NULL, NULL, {}, {}, NoId, 0, FALSE),
              mkShape("bulkPercent", 15, NULL, <<mkItem("p1", NULL, NULL)>>, {}, {}))>> }

BranchStores ==
  { [b \in BranchIds |-> [id |-> b, isActive |-> (b \in act), city |-> "riyadh"]]
      : act \in {{"b1", "b2"}, {"b2"}, {}} }

InitOrderCommon ==
  /\ offers \in OrderOfferStores
  /\ products = ProductDocs
  /\ branches \in BranchStores
  /\ customers \in {[u \in CustomerIds |-> sa] : sa \in {{}, {"home"}}}
  /\ orders = {}
  /\ priced = NoAnswer
  /\ resolved = NoAnswer
  /\ served = NoAnswer
  /\ written = NoAnswer
  /\ located = NoAnswer
  /\ answered = NoAnswer

\* one customer checking out, with every request body
InitOrder ==
  /\ InitOrderCommon
  /\ calls = [c \in Callers |-> IF c = 1 THEN Idle ELSE [pc |-> "off"]]

NextOrder ==
  \E c \in Callers :
    \/ createOrderBegin(c, OrderShapes, SubtotalDeltas, TotalDeltas)
    \/ createOrderSave(c)
    \/ \E dbOk \in BOOLEAN : createOrderSaveAddress(c, dbOk)
    \/ \E ok \in BOOLEAN : createOrderCommit(c, ok)
    \/ \E found \in BOOLEAN : createOrderRetrieve(c, found)

SpecOrder == InitOrder /\ [][NextOrder]_vars

-----------------------------------------------------------------------------
(* Claims on createOrder *)

\* the call of caller c has started and carries a request
Begun(c) == calls[c].pc \notin {"idle", "off"}

\* the call of caller c has ended, by return or by throw
Ended(c) == calls[c].pc \in {"aborted", "returned", "failed"}

PersistedBy(c) == {o \in orders : o.by = c}

\* C4: whenever the recomputed subtotal differs from the submitted subtotal by
\* more than 0.01, or the recomputed subtotal plus shipping differs from the
\* submitted total by more than 0.01, createOrder rejects the call and no
\* order of that call is persisted.
C4_MismatchRejected ==
  \A c \in Callers :
    (/\ Begun(c)
     /\ calls[c].priced
     /\ \/ Abs(calls[c].calculatedSubtotal - calls[c].data.subtotal) > Tolerance
        \/ Abs(calls[c].calculatedSubtotal + calls[c].data.shipping - calls[c].data.total)
             > Tolerance)
    => /\ calls[c].pc = "aborted"
       /\ calls[c].error \in {"Subtotal mismatch", "Total amount mismatch"}
       /\ PersistedBy(c) = {}

\* a request whose subtotal agrees and whose total is off by more than 0.01
\* has been rejected
C4_Witness ==
  \E c \in Callers :
    /\ Begun(c)
    /\ calls[c].priced
    /\ Abs(calls[c].calculatedSubtotal - calls[c].data.subtotal) <= Tolerance
    /\ Abs(calls[c].calculatedSubtotal + calls[c].data.shipping - calls[c].data.total)
         > Tolerance
    /\ calls[c].pc = "aborted"
    /\ calls[c].error = "Total amount mismatch"
    /\ orders = {}

\* the calculator's effective price of the product of a line item, computed
\* with no location context
EffectivePriceOf(item) ==
  calculateEffectivePrices(offers, products[item.productId], NoId, Now).effectivePrice

RECURSIVE SumEffective(_, _)
SumEffective(items, i) ==
  IF i > Len(items) THEN 0
  ELSE EffectivePriceOf(items[i]) * items[i].quantity + SumEffective(items, i + 1)

\* C5: the unit price charged for every line item equals the effective price
\* the pricing calculator yields for the product (an effective price of 0 and
\* the original price when no campaign applies included), and the recomputed
\* subtotal is the sum of effective price times quantity.
C5_AsStated ==
  \A c \in Callers :
    (Begun(c) /\ calls[c].priced)
    => /\ \A i \in DOMAIN calls[c].orderItems :
            calls[c].orderItems[i].unitPrice = EffectivePriceOf(calls[c].data.items[i])
       /\ calls[c].calculatedSubtotal = SumEffective(calls[c].data.items, 1)

\* C6: when the device coordinates sent with the order resolve to a branch,
\* the line items are priced with that branch as location context, so that
\* the campaigns targeted at the branch take part in the prices.
C6_AsStated ==
  \A c \in Callers :
    (/\ Begun(c)
     /\ calls[c].priced
     /\ calls[c].data.clientLocation # NoLoc
     /\ calls[c].assignedBranch # NoId)
    => \A i \in DOMAIN calls[c].orderItems :
         calls[c].orderItems[i].unitPrice =
           chargedPrice(applyOfferPricing(offers,
                                          products[calls[c].data.items[i].productId],
                                          calls[c].assignedBranch, Now))

\* C7: for a call with saveInfo that has ended, the order is persisted exactly
\* when the address was saved by the call; a call that was aborted leaves the
\* customer's savedAddresses as they were; and a failed address save leaves no
\* order.
C7_AsStated ==
  \A c \in Callers :
    (Begun(c) /\ Ended(c) /\ calls[c].priced /\ calls[c].data.saveInfo)
    => /\ (PersistedBy(c) # {}) <=> (calls[c].address = "saved")
       /\ calls[c].pc = "aborted"
            => customers[calls[c].data.customerId] = calls[c].savedBefore
       /\ calls[c].address = "failed" => PersistedBy(c) = {}

-----------------------------------------------------------------------------
(* Concurrent createOrder calls *)

\* the request bodies of the concurrent model: one valid cart, with and
\* without saveInfo, sent with the server's own subtotal and total
ConcurrentShapes ==
  { [customerId |-> "u1", items |-> <<mkLine("p1", 1)>>, shippingAddress |-> "home",
     shipping |-> 1500 * Cent, saveInfo |-> si, customerIpAddress |-> NoId,
     clientLocation |-> NoLoc] : si \in BOOLEAN }

InitOrders ==
  /\ offers = <<>>
  /\ products = ProductDocs
  /\ branches \in BranchStores
  /\ customers = [u \in CustomerIds |-> {}]
  /\ orders = {}
  /\ priced = NoAnswer
  /\ resolved = NoAnswer
  /\ served = NoAnswer
  /\ written = NoAnswer
  /\ located = NoAnswer
  /\ answered = NoAnswer
  /\ calls = [c \in Callers |-> Idle]

NextOrders ==
  \E c \in Callers :
    \/ createOrderBegin(c, ConcurrentShapes, {0}, {0})
    \/ createOrderSave(c)
    \/ \E dbOk \in BOOLEAN : createOrderSaveAddress(c, dbOk)
    \/ \E ok \in BOOLEAN : createOrderCommit(c, ok)
    \/ \E found \in BOOLEAN : createOrderRetrieve(c, found)

SpecOrders == InitOrders /\ [][NextOrders]_vars

\* C8: under every interleaving of concurrent createOrder calls no two
\* persisted orders carry the same orderNumber.
C8_UniqueOrderNumbers ==
  \A o1, o2 \in orders : o1.orderNumber = o2.orderNumber => o1 = o2

\* two overlapping calls counted the same number of orders: the order of one
\* is persisted and the save of the other was refused
C8_Witness ==
  \E c, d \in Callers :
    /\ c # d
    /\ Begun(c) /\ Begun(d)
    /\ calls[c].order.orderNumber = calls[d].order.orderNumber
    /\ PersistedBy(c) # {}
    /\ calls[d].pc = "aborted"
    /\ calls[d].error = "duplicate key"

-----------------------------------------------------------------------------
(* OfferController.resolveRelevantOffers *)

MaxOffers == 3        \* stored campaigns
MaxPriority == 1      \* campaign priorities run over 0 .. MaxPriority

\* sqrt((lat - branchLat)^2 + (lng - branchLng)^2) between the requester's
\* coordinates and the branches, in hundredths of a degree
DegreeDistance == [b \in BranchIds |-> IF b = "b1" THEN 4 ELSE 130]

\* Product.find({ _id: { $in: productIdArray } })
cartProductsOf(req) == {p \in req.cartProductIds : p \in DOMAIN products}

\* the nearest active branch of the forEach scan, NoId without active branch
nearestBranchByDegrees ==
  IF ActiveBranches = {} THEN NoId
  ELSE CHOOSE b \in ActiveBranches :
         \A x \in ActiveBranches : DegreeDistance[b] <= DegreeDistance[x]

\* "Determine user's location context": the branch, city and coordinates the
\* filters use; userCoordinates is "dev" for the request's lat/lng and a
\* branch id for the location of that branch
locationContext(req) ==
  LET near == IF req.coords # NoLoc /\ req.branchId = NoId
              THEN nearestBranchByDegrees ELSE NoId
      userBranchId == IF req.branchId # NoId THEN req.branchId ELSE near
      userCity == IF req.cityName = NoId /\ near # NoId
                  THEN branches[near].city ELSE req.cityName
      found == userBranchId # NoId /\ userCity = NoId /\ userBranchId \in DOMAIN branches
  IN [userBranchId |-> userBranchId,
      userCity |-> IF found THEN branches[userBranchId].city ELSE userCity,
      userCoordinates |-> IF found /\ req.coords = NoLoc THEN userBranchId
                          ELSE req.coords]

\* the $or of locationConditions: branch, city, global
resolveLocationConditions(o, ctx) ==
  \/ (ctx.userBranchId # NoId
        /\ (ctx.userBranchId \in o.branches \/ o.branch = ctx.userBranchId))
  \/ (ctx.userCity # NoId /\ ctx.userCity \in o.cities)
  \/ globalCondition(o)

\* OfferCampaign.find(baseQuery), in store order
mainQuery(store, ctx, now) ==
  SelectSeq(store, LAMBDA o : offerQuery(o, now) /\ resolveLocationConditions(o, ctx))

\* includeOffer of the geo loop: a circle that holds the coordinates, or a
\* polygon that contains them
includeOffer(o, coords) ==
  \/ (o.geo.type = "Point" /\ o.geo.radiusMeters # NULL /\ o.geo.radiusMeters # 0
        /\ o.geo.distanceMeters[coords] <= o.geo.radiusMeters)
  \/ (o.geo.type = "Polygon" /\ coords \in o.geo.inside)

\* the campaigns after "Handle geo-based filtering".  The geo query spreads
\* baseQuery after the location $or was pushed onto its $and array, so a
\* geofenced campaign is looked at only when it also passes the location
\* conditions; those that hold the coordinates and are not yet in the list
\* are pushed behind the others.
withGeoOffers(store, found, ctx, now) ==
  IF ctx.userCoordinates = NoLoc THEN found
  ELSE found \o SelectSeq(store, LAMBDA o :
                  /\ offerQuery(o, now)
                  /\ resolveLocationConditions(o, ctx)
                  /\ o.geo.type # "none"
                  /\ includeOffer(o, ctx.userCoordinates)
                  /\ \A i \in DOMAIN found : found[i].id # o.id)

\* "Filter out offers with inactive products": some item's populated product
\* exists and is not inactive
hasActiveProducts(o) ==
  \E i \in DOMAIN o.items :
    /\ o.items[i].product \in DOMAIN products
    /\ products[o.items[i].product].isActive

\* index of the first item whose populated product is null, 0 when none
firstDangling(o) ==
  LET gone == {i \in DOMAIN o.items : o.items[i].product \notin DOMAIN products}
  IN IF gone = {} THEN 0 ELSE SetMin(gone)

\* relevanceScore of a campaign for the cart
relevanceScore(o, cart) ==
  10 * Cardinality({cp \in cart : \E i \in DOMAIN o.items : o.items[i].product = cp})
  + 5 * Cardinality({cp \in cart : products[cp].category \in o.categoryIds})
  + 8 * Cardinality({cp \in cart : cp \in o.productIds})

\* the campaign with its score, NULL when no cart product was found
scored(o, cart) ==
  [offer |-> o, relevanceScore |-> IF cart = {} THEN NULL ELSE relevanceScore(o, cart)]

\* the sort comparator with the priorities compared in ascending order
compareOffersAscending(a, b) ==
  IF a.offer.priority # b.offer.priority
  THEN a.offer.priority - b.offer.priority
  ELSE 0

\* the comparator of offers.sort: negative puts a first.  Two start dates
\* decide even when they are equal; the end dates are looked at only when a
\* start date is missing.
compareOffers(a, b) ==
  IF a.offer.priority # b.offer.priority
  THEN b.offer.priority - a.offer.priority
  ELSE IF /\ a.relevanceScore # NULL /\ b.relevanceScore # NULL
          /\ a.relevanceScore # b.relevanceScore
  THEN b.relevanceScore - a.relevanceScore
  ELSE IF a.offer.startsAt # NULL /\ b.offer.startsAt # NULL
  THEN a.offer.startsAt - b.offer.startsAt
  ELSE IF a.offer.endsAt # NULL /\ b.offer.endsAt # NULL
  THEN a.offer.endsAt - b.offer.endsAt
  ELSE 0

\* x put behind the last element of a sorted list that the comparator does
\* not place after it
RECURSIVE insertSorted(_, _)
insertSorted(list, x) ==
  IF list = <<>> THEN <<x>>
  ELSE IF compareOffers(list[Len(list)], x) <= 0 THEN Append(list, x)
  ELSE Append(insertSorted(SubSeq(list, 1, Len(list) - 1), x), list[Len(list)])

\* Array.prototype.sort with the comparator: a stable insertion sort
RECURSIVE sortOffers(_)
sortOffers(list) ==
  IF list = <<>> THEN <<>>
  ELSE insertSorted(sortOffers(SubSeq(list, 1, Len(list) - 1)), list[Len(list)])

\* hasBlockingOffer's test with a strict comparison of the priorities
blocksStrict(existingOffer, offer) ==
  ~existingOffer.stackable /\ existingOffer.priority > offer.priority

\* !existingOffer.stackable && existingOffer.priority >= offer.priority
blocks(existingOffer, offer) ==
  ~existingOffer.stackable /\ existingOffer.priority >= offer.priority

\* index of the first item of the campaign that has a blocking offer in
\* productOfferMap, 0 when none; items with a null product are passed over
firstBlocked(map, offer) ==
  LET hit == {i \in DOMAIN offer.items :
                /\ offer.items[i].product \in DOMAIN map
                /\ \E k \in DOMAIN map[offer.items[i].product] :
                     blocks(map[offer.items[i].product][k], offer)}
  IN IF hit = {} THEN 0 ELSE SetMin(hit)

\* the item loops read item.product._id: a null product throws, unless the
\* loop of a non-stackable campaign has left at a blocked item before it
stackThrows(map, offer) ==
  /\ firstDangling(offer) # 0
  /\ \/ offer.stackable
     \/ firstBlocked(map, offer) = 0
     \/ firstDangling(offer) < firstBlocked(map, offer)

itemProducts(offer) == {offer.items[i].product : i \in DOMAIN offer.items}

\* the body of "for (const offer of offers)" on the state st of the loop
stackOffer(st, offer) ==
  IF st.threw THEN st
  ELSE IF stackThrows(st.map, offer) THEN [st EXCEPT !.threw = TRUE]
  ELSE IF offer.stackable
  THEN [st EXCEPT !.applied = Append(@, offer),
                  !.map = [q \in DOMAIN @ |->
                             IF q \in itemProducts(offer) THEN Append(@[q], offer) ELSE @[q]]]
  ELSE IF firstBlocked(st.map, offer) # 0 THEN st
  ELSE [st EXCEPT !.applied = Append(@, offer),
                  !.map = [q \in DOMAIN @ |->
                             IF q \in itemProducts(offer) THEN <<offer>> ELSE @[q]]]

\* "Apply stacking logic": the loop over the sorted campaigns from index i
RECURSIVE stackLoop(_, _, _)
stackLoop(st, sorted, i) ==
  IF i > Len(sorted) THEN st
  ELSE stackLoop(stackOffer(st, sorted[i].offer), sorted, i + 1)

\* the campaigns left by the queries and by the inactive-product filter
candidateOffers(store, ctx, now) ==
  SelectSeq(withGeoOffers(store, mainQuery(store, ctx, now), ctx, now),
            LAMBDA o : o.items # <<>> /\ hasActiveProducts(o))

\* the scoring reads item.product._id of every item of every campaign
scoringThrows(kept, cart) ==
  cart # {} /\ \E i \in DOMAIN kept : firstDangling(kept[i]) # 0

\* the list handed to the stacking loop
sortedOffers(kept, cart) == sortOffers([i \in DOMAIN kept |-> scored(kept[i], cart)])

\* the state the stacking loop starts in
emptyStack == [applied |-> <<>>, map |-> [q \in DOMAIN products |-> <<>>], threw |-> FALSE]

idsOf(list) == [i \in DOMAIN list |-> list[i].id]

\* res.json(...) or next(error): the campaigns of the answer are named by
\* their ids, sorted is the list handed to the stacking loop
resolveAnswer(req, ctx, sorted, st) ==
  IF st.threw
  THEN [state |-> "error", request |-> req]
  ELSE [state |-> "done", request |-> req,
        sorted |-> [i \in DOMAIN sorted |-> sorted[i].offer.id],
        offers |-> idsOf(st.applied),
        userBranchId |-> ctx.userBranchId,
        userCity |-> ctx.userCity,
        userCoordinates |-> ctx.userCoordinates,
        totalOffersFound |-> Len(sorted)]

-----------------------------------------------------------------------------
(* Campaign stores and requests of the stacking model *)

\* the products of the stacking model: p1 and p2, and an inactive p3; "gone"
\* names a product that was deleted
ResolveProductDocs ==
  [p \in ProductIds \cup {"p3"} |->
     IF p = "p3"
     THEN [id |-> p, price |-> 500 * Cent, offerPrice |-> NULL, category |-> "c2",
           isActive |-> FALSE, categoryPopulated |-> FALSE]
     ELSE ProductDocs[p]]

itemsOn(ps) == [i \in DOMAIN ps |-> mkItem(ps[i], NULL, NULL)]

discount15(ps) == mkShape("bulkPercent", 15, NULL, itemsOn(ps), {}, {})

\* valid global campaigns with every priority, stackable flag and item list
StackingOffers(id) ==
  { mkOffer(id, mkVis(TRUE, NULL, NULL, {}, {}, NoId, pr, st), discount15(ps))
      : pr \in 0 .. MaxPriority, st \in BOOLEAN,
        ps \in {<<"p1">>, <<"p2">>, <<"p1", "p2">>} }

\* a circle of 500 m around a point 300 m from the device and 800 m or more
\* from the branches
NearDevice ==
  [type |-> "Point", radiusMeters |-> 500,
   distanceMeters |-> [pl \in {"dev"} \cup BranchIds |-> IF pl = "dev" THEN 300 ELSE 800],
   inside |-> {}]

\* campaigns that the filters, the scores and the date comparisons tell
\* apart: inactive; geofenced only; for branch b1; for the city; with dates;
\* with categories and no items; with a deleted product; on an inactive
\* product only
TargetedOffers(id) ==
  { mkOffer(id, mkVis(FALSE, NULL, NULL, {}, {}, NoId, 1, FALSE), discount15(<<"p1">>)),
    [mkOffer(id, mkVis(TRUE, NULL, NULL, {}, {}, NoId, 1, FALSE), discount15(<<"p1">>))
       EXCEPT !.geo = NearDevice],
    mkOffer(id, mkVis(TRUE, 1, NULL, {"b1"}, {}, NoId, 1, FALSE), discount15(<<"p2">>)),
    mkOffer(id, mkVis(TRUE, NULL, NULL, {}, {"riyadh"}, NoId, 1, TRUE), discount15(<<"p2">>)),
    mkOffer(id, mkVis(TRUE, 0, Now, {}, {}, NoId, 1, FALSE), discount15(<<"p1">>)),
    mkOffer(id, mkVis(TRUE, NULL, NULL, {}, {}, NoId, 1, FALSE),
            mkShape("bulkPercent", 15, NULL, <<>>, {}, {"c1"})),
    mkOffer(id, mkVis(TRUE, NULL, NULL, {}, {}, NoId, 1, FALSE), discount15(<<"p1", "gone">>)),
    mkOffer(id, mkVis(TRUE, NULL, NULL, {}, {}, NoId, 1, FALSE), discount15(<<"p3">>)) }

\* the campaigns a store of the stacking model may hold at position id
ResolveOffersAt(id) == StackingOffers(id) \cup TargetedOffers(id)

mkRequest(coords, cityName, branchId, cartProductIds) ==
  [coords |-> coords, cityName |-> cityName, branchId |-> branchId,
   cartProductIds |-> cartProductIds]

\* requests without context, with device coordinates and a cart, with a
\* branch and a cart, and with a branch id that is no ObjectId
ResolveRequests ==
  { mkRequest(NoLoc, NoId, NoId, {}),
    mkRequest("dev", NoId, NoId, {"p1"}),
    mkRequest(NoLoc, NoId, "b1", {"p2"}),
    mkRequest(NoLoc, NoId, Malformed, {}) }

InitResolve ==
  /\ \E pick \in [1 .. MaxOffers -> ResolveOffersAt(0)] :
       offers = [i \in 1 .. MaxOffers |-> [pick[i] EXCEPT !.id = i]]
  /\ products = ResolveProductDocs
  /\ branches = BranchDocs
  /\ customers = <<>>
  /\ orders = {}
  /\ calls = <<>>
  /\ priced = NoAnswer
  /\ resolved = NoAnswer
  /\ served = NoAnswer
  /\ written = NoAnswer
  /\ located = NoAnswer
  /\ answered = NoAnswer

\* GET /offers/resolve, once per behaviour.  A branch id that is no ObjectId
\* fails the query with a CastError, a null populated product fails the
\* scoring or the stacking loop with a TypeError.
resolveRelevantOffers(req) ==
  /\ resolved.state = "none"
  /\ \E ctx \in {locationContext(req)} :
       IF ctx.userBranchId = Malformed
       THEN resolved' = [state |-> "error", request |-> req]
       ELSE \E cart \in {cartProductsOf(req)} :
            \E kept \in {candidateOffers(offers, ctx, Now)} :
              IF scoringThrows(kept, cart)
              THEN resolved' = [state |-> "error", request |-> req]
              ELSE \E sorted \in {sortedOffers(kept, cart)} :
                   \E st \in {stackLoop(emptyStack, sorted, 1)} :
                     resolved' = resolveAnswer(req, ctx, sorted, st)
  /\ UNCHANGED <<offers, products, branches, customers, orders, calls, priced, served, written,
                 located, answered>>

NextResolve == \E req \in ResolveRequests : resolveRelevantOffers(req)

SpecResolve == InitResolve /\ [][NextResolve]_vars

-----------------------------------------------------------------------------
(* Claims on the stacking resolver *)

\* ids of the campaigns handed to the stacking loop, and of the applied offers
Candidates == Range(resolved.sorted)
Applied == Range(resolved.offers)

\* the item lists of campaigns a and b contain a common product
Contest(a, b) == itemProducts(offers[a]) \cap itemProducts(offers[b]) # {}

\* C9: the list of applied offers that resolveRelevantOffers returns never
\* contains two distinct non-stackable campaigns whose item lists both
\* contain the same product.
C9_NoTwoNonStackable ==
  resolved.state = "done"
  => \A a, b \in Applied :
       (a # b /\ ~offers[a].stackable /\ ~offers[b].stackable) => ~Contest(a, b)

\* two non-stackable candidates of equal priority contest a product: one is
\* applied, the other is not
C9_Witness ==
  /\ resolved.state = "done"
  /\ \E a, b \in Candidates :
       /\ a # b
       /\ ~offers[a].stackable /\ ~offers[b].stackable
       /\ offers[a].priority = offers[b].priority
       /\ Contest(a, b)
       /\ a \in Applied /\ b \notin Applied

\* non-stackable candidates H and L contest a product, H with the higher priority
Rivals(H, L) ==
  /\ H \in Candidates /\ L \in Candidates
  /\ ~offers[H].stackable /\ ~offers[L].stackable
  /\ Contest(H, L)
  /\ offers[H].priority > offers[L].priority

\* C10: for non-stackable candidates H and L that contest a product with
\* priority(H) > priority(L), the answer contains H and does not contain L,
\* whatever the store order and the other campaigns are.
C10_AsStated ==
  resolved.state = "done"
  => \A H, L \in 1 .. MaxOffers :
       Rivals(H, L) => (H \in Applied /\ L \notin Applied)

\* C10 as amended: the answer never contains L together with H, and it
\* contains H and not L unless it contains another non-stackable campaign T
\* with priority(T) >= priority(H) that shares a product with H; then H is
\* left out.
C10_HigherPriorityWins ==
  resolved.state = "done"
  => \A H, L \in 1 .. MaxOffers :
       Rivals(H, L)
       => \/ (H \in Applied /\ L \notin Applied)
          \/ /\ H \notin Applied
             /\ \E T \in Applied \ {H} :
                  /\ ~offers[T].stackable
                  /\ offers[T].priority >= offers[H].priority
                  /\ Contest(T, H)

\* L is stored before H, H is applied and L is not
C10_Witness ==
  /\ resolved.state = "done"
  /\ \E H, L \in 1 .. MaxOffers :
       /\ Rivals(H, L)
       /\ L < H
       /\ H \in Applied /\ L \notin Applied

\* C11: in the applied offers, no campaign other than an accepted
\* non-stackable campaign N, stackable or not, with priority equal to or lower
\* than N's has an item on a product of N.
C11_AsStated ==
  resolved.state = "done"
  => \A N, X \in Applied :
       (N # X /\ ~offers[N].stackable /\ offers[X].priority <= offers[N].priority)
       => ~Contest(N, X)

-----------------------------------------------------------------------------
(* The public offer listings of OfferController *)

MalformedId == 0      \* an :id parameter that is no ObjectId

\* .sort({ createdAt: -1 }): the store holds the campaigns in creation order
newestFirst(list) == [i \in DOMAIN list |-> list[Len(list) + 1 - i]]

\* activeOffers: the campaigns with an item whose product exists and is not
\* inactive
activeOffersOf(list) == SelectSeq(list, LAMBDA o : o.items # <<>> /\ hasActiveProducts(o))

\* GET /offers/active
getPublicActiveOffers ==
  /\ served.state = "none"
  /\ served' = [state |-> "done", handler |-> "getPublicActiveOffers",
                offers |-> idsOf(activeOffersOf(newestFirst(
                             SelectSeq(offers, LAMBDA o : offerQuery(o, Now)))))]
  /\ UNCHANGED <<offers, products, branches, customers, orders, calls, priced, resolved,
                 written, located, answered>>

\* the branch clause of the query of getLocationBasedOffers: only the legacy
\* branch field is looked at
locationBasedQuery(o, branchId) ==
  IF branchId # NoId THEN (o.branch = NoId \/ o.branch = branchId)
  ELSE o.branch = NoId

\* GET /offers/location-based with the coordinates coords, NoLoc for none
getLocationBasedOffers(coords) ==
  /\ served.state = "none"
  /\ \E branchId \in {IF coords # NoLoc THEN nearestBranchByDegrees ELSE NoId} :
       served' = [state |-> "done", handler |-> "getLocationBasedOffers",
                  coords |-> coords, nearestBranch |-> branchId,
                  offers |-> idsOf(activeOffersOf(newestFirst(
                               SelectSeq(offers, LAMBDA o : /\ offerQuery(o, Now)
                                                            /\ locationBasedQuery(o, branchId)))))]
  /\ UNCHANGED <<offers, products, branches, customers, orders, calls, priced, resolved,
                 written, located, answered>>

\* GET /offers/public/:id
getPublicOffer(id) ==
  /\ served.state = "none"
  /\ served' =
       IF id = MalformedId
       THEN [state |-> "error", handler |-> "getPublicOffer", code |-> "CastError"]
       ELSE IF \E i \in DOMAIN offers : offers[i].id = id /\ offerQuery(offers[i], Now)
       THEN [state |-> "done", handler |-> "getPublicOffer", offers |-> <<id>>]
       ELSE [state |-> "error", handler |-> "getPublicOffer", code |-> "NOT_FOUND"]
  /\ UNCHANGED <<offers, products, branches, customers, orders, calls, priced, resolved,
                 written, located, answered>>

\* campaigns with every validity and targeting of the pricing model on an
\* active and on an inactive product, one behind a geofence only, and one for
\* the branch set {b2}
PublicOffers(id) ==
  { mkOffer(id, v, discount15(ps)) : v \in PriceVisibilities, ps \in {<<"p1">>, <<"p3">>} }
  \cup
  { [mkOffer(id, mkVis(TRUE, NULL, NULL, {}, {}, NoId, 0, FALSE), discount15(<<"p1">>))
       EXCEPT !.geo = NearDevice],
    mkOffer(id, mkVis(TRUE, NULL, NULL, {"b2"}, {}, NoId, 0, FALSE), discount15(<<"p1">>)) }

InitPublic ==
  /\ \E a \in PublicOffers(1), b \in PublicOffers(2) : offers = <<a, b>>
  /\ products = ResolveProductDocs
  /\ branches = BranchDocs
  /\ customers = <<>>
  /\ orders = {}
  /\ calls = <<>>
  /\ priced = NoAnswer
  /\ resolved = NoAnswer
  /\ served = NoAnswer
  /\ written = NoAnswer
  /\ located = NoAnswer
  /\ answered = NoAnswer

\* one pricing request, one resolve request and one public listing
NextPublic ==
  \/ PriceProduct
  \/ \E req \in ResolveRequests : resolveRelevantOffers(req)
  \/ getPublicActiveOffers
  \/ \E coords \in {NoLoc, "dev"} : getLocationBasedOffers(coords)
  \/ \E id \in 0 .. 3 : getPublicOffer(id)

SpecPublic == InitPublic /\ [][NextPublic]_vars

\* ids of the campaigns that contributed to the price of the pricing answer
Contributing == {priced.result.applicableOffers[k].id : k \in DOMAIN priced.result.applicableOffers}

\* C12: every campaign returned by getPublicActiveOffers, getPublicOffer,
\* getLocationBasedOffers or resolveRelevantOffers, and every campaign that
\* contributes to a price of calculateEffectivePrices, is active, has no start
\* or a start <= now, and has no end or an end >= now.
C12_OnlyValidCampaigns ==
  /\ priced.state = "done" => \A i \in Contributing : ClaimValid(offers[i])
  /\ resolved.state = "done" => \A i \in Applied : ClaimValid(offers[i])
  /\ served.state = "done" => \A i \in Range(served.offers) : ClaimValid(offers[i])

\* the store holds a valid campaign and one that is not: the valid one has
\* lowered a price and is in the answers of the resolver and of a listing,
\* the other one is in none
C12_Witness ==
  /\ priced.state = "done" /\ resolved.state = "done" /\ served.state = "done"
  /\ \E i, j \in DOMAIN offers :
       /\ ~ClaimValid(offers[j])
       /\ i \in Contributing /\ i \in Applied /\ i \in Range(served.offers)
       /\ j \notin Contributing /\ j \notin Applied /\ j \notin Range(served.offers)

\* C13: a temporally valid campaign whose geofence holds the requester's
\* coordinates (circle: distance <= radiusMeters; polygon: point inside)
\* passes the targeting filter of resolveRelevantOffers and, having an active
\* product, is among the campaigns handed to the stacking loop, whatever its
\* branch and city targeting.
C13_AsStated ==
  (resolved.state = "done" /\ resolved.request.coords # NoLoc)
  => \A i \in DOMAIN offers :
       (/\ ClaimValid(offers[i])
        /\ offers[i].geo.type # "none"
        /\ includeOffer(offers[i], resolved.request.coords)
        /\ offers[i].items # <<>>
        /\ hasActiveProducts(offers[i]))
       => i \in Candidates

\* the campaign has a targeting restriction
Targeted(o) ==
  o.branches # {} \/ o.cities # {} \/ o.branch # NoId \/ o.geo.type # "none"

\* one of the targeting dimensions of the campaign matches the branch, city
\* and coordinates of the requester
MatchesContext(o, branchId, city, coords) ==
  \/ (branchId \in BranchIds /\ (branchId \in o.branches \/ branchId = o.branch))
  \/ (city # NoId /\ city \in o.cities)
  \/ (coords # NoLoc /\ o.geo.type # "none" /\ includeOffer(o, coords))

\* the city of a branch, NoId for no branch
CityOf(branchId) == IF branchId \in DOMAIN branches THEN branches[branchId].city ELSE NoId

\* C14: no campaign with a branch set, city set, legacy branch or geofence is
\* applied by calculateEffectivePrices or returned by resolveRelevantOffers
\* or getLocationBasedOffers unless one of its targeting dimensions matches
\* the location context of the request.
C14_AsStated ==
  /\ priced.state = "done"
       => \A i \in Contributing :
            Targeted(offers[i]) => MatchesContext(offers[i], priced.branchId, NoId, NoLoc)
  /\ resolved.state = "done"
       => \A i \in Applied :
            Targeted(offers[i])
            => MatchesContext(offers[i], resolved.userBranchId, resolved.userCity,
                              resolved.userCoordinates)
  /\ (served.state = "done" /\ served.handler = "getLocationBasedOffers")
       => \A i \in Range(served.offers) :
            Targeted(offers[i])
            => MatchesContext(offers[i], served.nearestBranch, CityOf(served.nearestBranch),
                              served.coords)


-----------------------------------------------------------------------------
(* Campaign writes of OfferController: createOffer, updateOffer, extendOffer,
   toggleOfferStatus and deleteOffer behind requireAuth and validateBody.
   In this part the id of a campaign is its _id, not its position. *)

\* req.user as requireAuth decodes it from the token
Users ==
  { [id |-> "admin", role |-> "admin", branchId |-> NoId],
    [id |-> "op1", role |-> "branch", branchId |-> "b1"],
    [id |-> "op2", role |-> "branch", branchId |-> "b2"] }

\* the excludeOfferId of a conflict check that excludes no campaign
NoOffer == 0

\* position of the campaign with this _id in the store, 0 when there is none
offerIndex(store, id) ==
  LET at == {i \in DOMAIN store : store[i].id = id}
  IN IF at = {} THEN 0 ELSE SetMin(at)

\* the _id of a new document: one that no stored campaign has
newOfferId(store) ==
  LET ids == {store[i].id : i \in DOMAIN store}
  IN IF ids = {} THEN 1 ELSE 1 + CHOOSE m \in ids : \A n \in ids : n <= m

\* the query of checkProductConflicts
conflictQuery(o, productIds, excludeOfferId, targetBranch, now) ==
  /\ o.isActive
  /\ \E i \in DOMAIN o.items : o.items[i].product \in Range(productIds)
  /\ (o.startsAt = NULL \/ o.startsAt <= now)
  /\ (o.endsAt = NULL \/ o.endsAt >= now)
  /\ targetBranch # NoId => (o.branch = NoId \/ o.branch = targetBranch)
  /\ excludeOfferId # NoOffer => o.id # excludeOfferId

\* the entry of conflictDetails of one conflicting campaign: the campaign and
\* those of its items that are among the submitted products
conflictDetail(o, productIds) ==
  [offer |-> o.id,
   products |-> LET hit == SelectSeq(o.items, LAMBDA it : it.product \in Range(productIds))
                IN [i \in DOMAIN hit |-> hit[i].product]]

\* checkProductConflicts: the details of the conflicting campaigns (empty for
\* the null it returns when there are none); reading _id of the populated
\* product of an item whose product was deleted throws
checkProductConflicts(store, productIds, excludeOfferId, targetBranch, now) ==
  LET conflictingOffers ==
        SelectSeq(store, LAMBDA o : conflictQuery(o, productIds, excludeOfferId,
                                                  targetBranch, now))
  IN [threw |-> \E i \in DOMAIN conflictingOffers : firstDangling(conflictingOffers[i]) # 0,
      details |-> [i \in DOMAIN conflictingOffers |->
                     conflictDetail(conflictingOffers[i], productIds)]]

\* a JavaScript-falsy number: undefined or 0
falsy(n) == n = NULL \/ n = 0

\* validateBody(createOfferSchema): at least one item, and the value of the
\* bulk mode the body names
createOfferSchema(body) ==
  /\ Len(body.items) >= 1
  /\ ~(body.applyMode = "bulkPercent" /\ falsy(body.bulkPercent))
  /\ ~(body.applyMode = "bulkAmount" /\ falsy(body.bulkAmount))

rejected(store, code) == [code |-> code, details |-> <<>>, store |-> store]

\* the answer of POST /offers: the error code, the conflict details and the
\* store afterwards
createOfferAnswer(store, user, body, now) ==
  LET productIds == [i \in DOMAIN body.items |-> body.items[i].product]
      found == Range(productIds) \cap DOMAIN products
      targetBranch == IF user.role = "branch" THEN user.branchId ELSE body.branch
      conflicts == checkProductConflicts(store, productIds, NoOffer, targetBranch, now)
      offer ==
        [mkOffer(newOfferId(store),
                 mkVis(TRUE, body.startsAt, body.endsAt, {}, {},
                       IF user.role = "branch" THEN user.branchId ELSE body.branch, 0, FALSE),
                 mkShape(body.applyMode,
                         IF body.applyMode = "bulkPercent" THEN body.bulkPercent ELSE NULL,
                         IF body.applyMode = "bulkAmount" THEN body.bulkAmount ELSE NULL,
                         body.items, {}, {}))
           EXCEPT !.createdBy = user.id]
  IN IF ~createOfferSchema(body) THEN rejected(store, "VALIDATION_ERROR")
     ELSE IF Cardinality(found) # Len(productIds) THEN rejected(store, "PRODUCTS_NOT_FOUND")
     ELSE IF conflicts.threw THEN rejected(store, "TypeError")
     ELSE IF conflicts.details # <<>>
       THEN [code |-> "PRODUCT_CONFLICT", details |-> conflicts.details, store |-> store]
     ELSE IF body.applyMode = "bulkPercent" /\ falsy(body.bulkPercent)
       THEN rejected(store, "BULK_PERCENT_REQUIRED")
     ELSE IF body.applyMode = "bulkAmount" /\ falsy(body.bulkAmount)
       THEN rejected(store, "BULK_AMOUNT_REQUIRED")
     ELSE [code |-> "ok", details |-> <<>>, store |-> Append(store, offer)]

\* the permission check of updateOffer, extendOffer and toggleOfferStatus
accessDenied(user, offer) ==
  user.role = "branch" /\ offer.branch # NoId /\ offer.branch # user.branchId

\* the fields updateOffer assigns before it looks at the items; body.has
\* names the fields the body supplies
updateFields(offer, user, body) ==
  LET dated == [offer EXCEPT
                  !.startsAt = IF "startsAt" \in body.has THEN body.startsAt ELSE @,
                  !.endsAt = IF "endsAt" \in body.has THEN body.endsAt ELSE @,
                  !.isActive = IF "isActive" \in body.has THEN body.isActive ELSE @,
                  !.branch = IF user.role = "admin" /\ "branch" \in body.has
                             THEN body.branch ELSE @]
  IN IF "applyMode" \notin body.has THEN dated
     ELSE IF body.applyMode = "bulkPercent"
       THEN [dated EXCEPT !.applyMode = body.applyMode,
                          !.bulkPercent = IF falsy(body.bulkPercent) THEN @ ELSE body.bulkPercent,
                          !.bulkAmount = NULL]
     ELSE IF body.applyMode = "bulkAmount"
       THEN [dated EXCEPT !.applyMode = body.applyMode,
                          !.bulkAmount = IF falsy(body.bulkAmount) THEN @ ELSE body.bulkAmount,
                          !.bulkPercent = NULL]
     ELSE [dated EXCEPT !.applyMode = body.applyMode, !.bulkPercent = NULL, !.bulkAmount = NULL]

\* the answer of PUT /offers/:id
updateOfferAnswer(store, user, id, body, now) ==
  LET at == offerIndex(store, id)
      offer == store[at]
      edited == updateFields(offer, user, body)
      productIds == [i \in DOMAIN body.items |-> body.items[i].product]
      targetBranch == IF user.role = "admin" /\ "branch" \in body.has THEN body.branch
                      ELSE IF user.role = "branch" THEN user.branchId
                      ELSE offer.branch
      conflicts == checkProductConflicts(store, productIds, id, targetBranch, now)
  IN IF at = 0 THEN rejected(store, "NOT_FOUND")
     ELSE IF accessDenied(user, offer) THEN rejected(store, "FORBIDDEN")
     ELSE IF "items" \notin body.has
       THEN [code |-> "ok", details |-> <<>>, store |-> [store EXCEPT ![at] = edited]]
     ELSE IF conflicts.threw THEN rejected(store, "TypeError")
     ELSE IF conflicts.details # <<>>
       THEN [code |-> "PRODUCT_CONFLICT", details |-> conflicts.details, store |-> store]
     ELSE [code |-> "ok", details |-> <<>>,
           store |-> [store EXCEPT ![at] = [edited EXCEPT !.items = body.items]]]

\* the answer of PATCH /offers/:id/extend
extendOfferAnswer(store, user, id, endsAt, now) ==
  LET at == offerIndex(store, id)
  IN IF at = 0 THEN rejected(store, "NOT_FOUND")
     ELSE IF accessDenied(user, store[at]) THEN rejected(store, "FORBIDDEN")
     ELSE IF endsAt <= now THEN rejected(store, "INVALID_END_DATE")
     ELSE [code |-> "ok", details |-> <<>>, store |-> [store EXCEPT ![at].endsAt = endsAt]]

\* the answer of PATCH /offers/:id/status
toggleOfferStatusAnswer(store, user, id, isActive) ==
  LET at == offerIndex(store, id)
  IN IF at = 0 THEN rejected(store, "NOT_FOUND")
     ELSE IF accessDenied(user, store[at]) THEN rejected(store, "FORBIDDEN")
     ELSE [code |-> "ok", details |-> <<>>, store |-> [store EXCEPT ![at].isActive = isActive]]

\* the answer of DELETE /offers/:id: a branch operator deletes only what they
\* created
deleteOfferAnswer(store, user, id) ==
  LET at == offerIndex(store, id)
      offer == store[at]
  IN IF at = 0 THEN rejected(store, "NOT_FOUND")
     ELSE IF user.role = "branch"
             /\ (offer.createdBy # user.id
                 \/ (offer.branch # NoId /\ offer.branch # user.branchId))
       THEN rejected(store, "FORBIDDEN")
     ELSE [code |-> "ok", details |-> <<>>,
           store |-> SelectSeq(store, LAMBDA o : o.id # id)]

\* one write request: the answer is recorded and the store replaced
respond(handler, user, id, body, answer) ==
  /\ written' = [state |-> IF answer.code = "ok" THEN "done" ELSE "error",
                 handler |-> handler, user |-> user, id |-> id, body |-> body,
                 code |-> answer.code, details |-> answer.details]
  /\ offers' = answer.store
  /\ UNCHANGED <<products, branches, customers, orders, calls, priced, resolved, served,
                 located, answered>>

createOffer(user, body) ==
  /\ written.state = "none"
  /\ respond("createOffer", user, NoOffer, body, createOfferAnswer(offers, user, body, Now))

updateOffer(user, id, body) ==
  /\ written.state = "none"
  /\ respond("updateOffer", user, id, body, updateOfferAnswer(offers, user, id, body, Now))

extendOffer(user, id, endsAt) ==
  /\ written.state = "none"
  /\ respond("extendOffer", user, id, [endsAt |-> endsAt],
             extendOfferAnswer(offers, user, id, endsAt, Now))

toggleOfferStatus(user, id, isActive) ==
  /\ written.state = "none"
  /\ respond("toggleOfferStatus", user, id, [isActive |-> isActive],
             toggleOfferStatusAnswer(offers, user, id, isActive))

deleteOffer(user, id) ==
  /\ written.state = "none"
  /\ respond("deleteOffer", user, id, [has |-> {}], deleteOfferAnswer(offers, user, id))


-----------------------------------------------------------------------------
(* Stores and requests of the campaign writes *)

\* a campaign as the write handlers leave it: no branch and city sets, no
\* geofence, priority 0, not stackable
writtenOffer(id, isActive, startsAt, endsAt, createdBy, branch, shape) ==
  [mkOffer(id, mkVis(isActive, startsAt, endsAt, {}, {}, branch, 0, FALSE), shape)
     EXCEPT !.createdBy = createdBy]

\* creators and scopes: the administrator's global and branch campaigns,
\* and the campaigns of the two branch operators
Scopes == { <<"admin", NoId>>, <<"admin", "b1">>, <<"op1", "b1">>, <<"op2", "b2">> }

\* valid now, deactivated, expired, not yet started
Lifetimes == { <<TRUE, NULL, NULL>>, <<FALSE, NULL, NULL>>, <<TRUE, NULL, Now - 1>>,
               <<TRUE, Now + 1, NULL>> }

\* the product of the second item of the last shape was deleted after the
\* campaign was written
AdminShapes ==
  { mkShape("perItem", NULL, NULL, <<mkItem("p1", 500 * Cent, NULL)>>, {}, {}),
    mkShape("bulkPercent", 15, NULL, itemsOn(<<"p2">>), {}, {}),
    mkShape("bulkAmount", NULL, 300 * Cent, itemsOn(<<"p1", "gone">>), {}, {}) }

AdminOffers(id) ==
  { writtenOffer(id, l[1], l[2], l[3], s[1], s[2], shape)
      : l \in Lifetimes, s \in Scopes, shape \in AdminShapes }

mkBody(has, applyMode, bulkPercent, bulkAmount, items, branch) ==
  [has |-> has, startsAt |-> NULL, endsAt |-> NULL, isActive |-> TRUE,
   applyMode |-> applyMode, bulkPercent |-> bulkPercent, bulkAmount |-> bulkAmount,
   items |-> items, branch |-> branch]

\* bodies of POST /offers: the three modes with and without their value, one
\* or two products, a product listed twice, a deleted product, no item
CreateBodies ==
  { mkBody({}, m[1], m[2], m[3], itemsOn(ps), br)
      : m \in { <<"perItem", NULL, NULL>>, <<"bulkPercent", 15, NULL>>,
                <<"bulkPercent", 0, NULL>>, <<"bulkAmount", NULL, NULL>>,
                <<"bulkAmount", NULL, 300 * Cent>> },
        ps \in { <<"p1">>, <<"p2">>, <<"p1", "p1">>, <<"p2", "gone">>, <<>> },
        br \in {NoId, "b1"} }

\* bodies of PUT /offers/:id: new items, new items with a new branch, a new
\* mode with and without its value, activation, an emptied end date
UpdateBodies ==
  { mkBody({"items"}, "perItem", NULL, NULL, itemsOn(ps), NoId)
      : ps \in { <<"p1">>, <<"p2">>, <<"gone">>, <<>> } }
  \cup
  { mkBody({"items", "branch"}, "perItem", NULL, NULL, itemsOn(<<"p1">>), br)
      : br \in BranchIds }
  \cup
  { mkBody({"applyMode"}, m, NULL, NULL, <<>>, NoId)
      : m \in {"perItem", "bulkPercent", "bulkAmount"} }
  \cup
  { mkBody({"applyMode", "bulkPercent"}, "bulkPercent", pc, NULL, <<>>, NoId) : pc \in {0, 15} }
  \cup
  { mkBody({"applyMode", "bulkAmount"}, "bulkAmount", NULL, 300 * Cent, <<>>, NoId),
    mkBody({"isActive"}, "perItem", NULL, NULL, <<>>, NoId),
    mkBody({"endsAt"}, "perItem", NULL, NULL, <<>>, NoId) }

\* the _ids a request names: the two stored campaigns and one that is not stored
RequestIds == 1 .. 3

InitAdmin ==
  /\ \E a \in AdminOffers(1), b \in AdminOffers(2) : offers = <<a, b>>
  /\ products = ResolveProductDocs
  /\ branches = BranchDocs
  /\ customers = <<>>
  /\ orders = {}
  /\ calls = <<>>
  /\ priced = NoAnswer
  /\ resolved = NoAnswer
  /\ served = NoAnswer
  /\ written = NoAnswer
  /\ located = NoAnswer
  /\ answered = NoAnswer

\* one write request of one user
NextAdmin ==
  \/ \E user \in Users, body \in CreateBodies : createOffer(user, body)
  \/ \E user \in Users, id \in RequestIds, body \in UpdateBodies : updateOffer(user, id, body)
  \/ \E user \in Users, id \in RequestIds, endsAt \in {Now, Now + 1} :
       extendOffer(user, id, endsAt)
  \/ \E user \in Users, id \in RequestIds, isActive \in BOOLEAN :
       toggleOfferStatus(user, id, isActive)
  \/ \E user \in Users, id \in RequestIds : deleteOffer(user, id)

SpecAdmin == InitAdmin /\ [][NextAdmin]_vars


-----------------------------------------------------------------------------
(* Claims on the campaign writes *)

\* the products a write submits
Submitted(w) == {w.body.items[i].product : i \in DOMAIN w.body.items}

\* the branch scope the written campaign has after the write w
ScopeOf(store, w) ==
  IF w.handler = "createOffer"
  THEN IF w.user.role = "branch" THEN w.user.branchId ELSE w.body.branch
  ELSE IF w.user.role = "admin" /\ "branch" \in w.body.has THEN w.body.branch
  ELSE store[offerIndex(store, w.id)].branch

\* the other campaigns that hold a submitted product, are active and valid
\* now, and are global or of the branch of the written campaign
ConflictsOf(store, w) ==
  { i \in DOMAIN store :
      /\ store[i].id # w.id
      /\ ClaimValid(store[i])
      /\ itemProducts(store[i]) \cap Submitted(w) # {}
      /\ store[i].branch \in {NoId, ScopeOf(store, w)} }

\* a createOffer, or an updateOffer with items, that got past the checks
\* that come before the conflict check
ReachedConflictCheck(w) ==
  /\ w.state # "none"
  /\ \/ w.handler = "createOffer"
     \/ w.handler = "updateOffer" /\ "items" \in w.body.has
  /\ w.code \notin {"VALIDATION_ERROR", "PRODUCTS_NOT_FOUND", "NOT_FOUND", "FORBIDDEN"}

\* C15 as stated: a createOffer, or an updateOffer with items, that submits a
\* product of another active, valid campaign of an overlapping scope ends in
\* PRODUCT_CONFLICT, the error names every such campaign with the products
\* it shares, and the stored campaigns stay as they were
C15_AsStated ==
  [][ (ReachedConflictCheck(written') /\ ConflictsOf(offers, written') # {})
        => /\ written'.code = "PRODUCT_CONFLICT"
           /\ offers' = offers
           /\ \A i \in ConflictsOf(offers, written') :
                \E k \in DOMAIN written'.details :
                  /\ written'.details[k].offer = offers[i].id
                  /\ Range(written'.details[k].products)
                       = itemProducts(offers[i]) \cap Submitted(written') ]_vars


\* C16 as stated: every stored campaign in bulkPercent mode has a bulkPercent
\* value and every stored campaign in bulkAmount mode has a bulkAmount value,
\* whatever createOffer and updateOffer were asked to write
C16_AsStated ==
  \A i \in DOMAIN offers :
    /\ offers[i].applyMode = "bulkPercent" => offers[i].bulkPercent # NULL
    /\ offers[i].applyMode = "bulkAmount" => offers[i].bulkAmount # NULL


\* a request of a branch operator to update, extend, switch or delete a
\* stored campaign that is not scoped to the operator's branch
ForeignWrite(store, w) ==
  /\ w.state # "none"
  /\ w.handler \in {"updateOffer", "extendOffer", "toggleOfferStatus", "deleteOffer"}
  /\ w.user.role = "branch"
  /\ offerIndex(store, w.id) # 0
  /\ store[offerIndex(store, w.id)].branch # w.user.branchId

\* C17 as stated: every request of a branch operator to update, extend,
\* activate, deactivate or delete a campaign that is not scoped to their own
\* branch, global campaigns included, ends in FORBIDDEN and leaves the
\* campaign as it was
C17_AsStated ==
  [][ ForeignWrite(offers, written')
        => written'.code = "FORBIDDEN" /\ offers' = offers ]_vars


-----------------------------------------------------------------------------
(* Location lookups: GeolocationService.getLocationFromIP,
   BranchAssignmentService.findNearestBranchByIP, BranchController.getNearestBranch
   and BannerController.resolveBanners.  An address is the sequence of the
   parts of its text: numbers, groups of hex digits and the separators. *)

NearestMaxDistanceKm == 50

\* the text begins with the number first and a dot
startsWithOctet(ip, first) == Len(ip) >= 2 /\ ip[1] = first /\ ip[2] = "."

\* the text begins with the hex group first and a colon
startsWithGroup(ip, first) == Len(ip) >= 2 /\ ip[1] = first /\ ip[2] \in {":", "::"}

\* the texts that match (1[6-9]|2[0-9]|3[0-1])
SecondOctets172 ==
  {"16", "17", "18", "19", "20", "21", "22", "23", "24", "25", "26", "27", "28", "29",
   "30", "31"}

\* privateRanges.some(range => range.test(ip)) || ip === 'localhost'
isPrivateIP(ip) ==
  \/ startsWithOctet(ip, "127")
  \/ startsWithOctet(ip, "10")
  \/ (startsWithOctet(ip, "172") /\ Len(ip) >= 4 /\ ip[3] \in SecondOctets172 /\ ip[4] = ".")
  \/ (startsWithOctet(ip, "192") /\ Len(ip) >= 4 /\ ip[3] = "168" /\ ip[4] = ".")
  \/ ip = <<"::", "1">>
  \/ startsWithGroup(ip, "fc00")
  \/ startsWithGroup(ip, "fe80")
  \/ ip = <<"localhost">>

\* the outcomes of axios.get: status "success" in the body, another status
\* in the body, a non-2xx answer, a network error, the 5 s timeout
LookupOutcomes == {"success", "fail", "httpError", "networkError", "timeout"}

\* getLocationFromIP with the catch block left out: the rejections of
\* axios.get propagate
getLocationFromIPNoCatch(ip, outcome) ==
  IF isPrivateIP(ip)
  THEN [location |-> "fallback", called |-> FALSE, threw |-> FALSE]
  ELSE [location |-> IF outcome = "success" THEN "ipl" ELSE NoLoc,
        called |-> TRUE,
        threw |-> outcome \in {"httpError", "networkError", "timeout"}]

\* getLocationFromIP: the fallback location for a private address, else the
\* location the lookup service answers, null when it answers none or the
\* call throws; called tells whether axios.get ran
getLocationFromIPAnswer(ip, outcome) ==
  IF isPrivateIP(ip)
  THEN [location |-> "fallback", called |-> FALSE, threw |-> FALSE]
  ELSE [location |-> IF outcome = "success" THEN "ipl" ELSE NoLoc,
        called |-> TRUE,
        threw |-> FALSE]

getLocationFromIP(ip, outcome) ==
  /\ located.state = "none"
  /\ \E a \in {getLocationFromIPAnswer(ip.text, outcome)} :
       located' = [state |-> IF a.threw THEN "error" ELSE "done",
                   handler |-> "getLocationFromIP", ip |-> ip,
                   outcome |-> IF a.called THEN outcome ELSE "none",
                   location |-> a.location, called |-> a.called, threw |-> a.threw]
  /\ UNCHANGED <<offers, products, branches, customers, orders, calls, priced, resolved,
                 served, written, answered>>

\* BranchAssignmentService.findNearestBranchByIP called with an address
nearestBranchByIP(ip, outcome, queryOk) ==
  /\ located.state = "none"
  /\ \E a \in {getLocationFromIPAnswer(ip.text, outcome)} :
       located' = [state |-> "done", handler |-> "findNearestBranchByIP", ip |-> ip,
                   outcome |-> IF a.called THEN outcome ELSE "none",
                   location |-> a.location,
                   branch |-> IF a.threw THEN NoId
                              ELSE findNearestBranchByIP(a.location, queryOk)]
  /\ UNCHANGED <<offers, products, branches, customers, orders, calls, priced, resolved,
                 served, written, answered>>

\* Branch.findOne({isActive, location: {$near, $maxDistance: 50000}}) of
\* getNearestBranch and resolveBanners; a query that throws goes to next(error)
nearestWithin50(handler, coords, queryOk) ==
  /\ located.state = "none"
  /\ located' =
       IF coords = NoLoc
       THEN [state |-> "error", handler |-> handler, error |-> "INVALID_PARAMS",
             location |-> coords, branch |-> NoId]
       ELSE IF ~queryOk
       THEN [state |-> "error", handler |-> handler, error |-> "MongoError",
             location |-> coords, branch |-> NoId]
       ELSE [state |-> "done", handler |-> handler, error |-> "ok", location |-> coords,
             branch |-> nearestOf(coords, {b \in ActiveBranches :
                                             DistanceKm[coords][b] <= NearestMaxDistanceKm})]
  /\ UNCHANGED <<offers, products, branches, customers, orders, calls, priced, resolved,
                 served, written, answered>>

getNearestBranch(coords, queryOk) == nearestWithin50("getNearestBranch", coords, queryOk)

resolveBanners(coords, queryOk) == nearestWithin50("resolveBanners", coords, queryOk)

-----------------------------------------------------------------------------
(* Addresses and requests of the location lookups *)

v4(a, b, c, d) == <<a, ".", b, ".", c, ".", d>>

\* addresses with what they are: loopback, private, link-local or public
IpAddresses ==
  { [text |-> v4("127", "0", "0", "1"), class |-> "loopback"],
    [text |-> v4("10", "1", "2", "3"), class |-> "private"],
    [text |-> v4("172", "16", "0", "1"), class |-> "private"],
    [text |-> v4("172", "31", "255", "1"), class |-> "private"],
    [text |-> v4("172", "32", "0", "1"), class |-> "public"],
    [text |-> v4("192", "168", "1", "1"), class |-> "private"],
    [text |-> v4("192", "169", "1", "1"), class |-> "public"],
    [text |-> v4("169", "254", "1", "1"), class |-> "link-local"],
    [text |-> v4("8", "8", "8", "8"), class |-> "public"],
    [text |-> <<"::", "1">>, class |-> "loopback"],
    [text |-> <<"fc00", "::", "1">>, class |-> "private"],
    [text |-> <<"fd12", ":", "3456", "::", "1">>, class |-> "private"],
    [text |-> <<"fe80", "::", "1">>, class |-> "link-local"],
    [text |-> <<"2001", ":", "db8", "::", "1">>, class |-> "public"],
    [text |-> <<"::", "ffff", ":">> \o v4("127", "0", "0", "1"), class |-> "loopback"],
    [text |-> <<"::", "ffff", ":">> \o v4("192", "168", "1", "1"), class |-> "private"] }

\* the request bodies of createOrder of the location model
LocateShapes ==
  { [customerId |-> "u1", items |-> <<mkLine("p1", 1)>>, shippingAddress |-> "home",
     shipping |-> 1500 * Cent, saveInfo |-> si, customerIpAddress |-> og.customerIpAddress,
     clientLocation |-> og.clientLocation]
      : si \in BOOLEAN, og \in Origins }

InitLocate == InitOrder

\* one location lookup, and one createOrder call
NextLocate ==
  \/ \E ip \in IpAddresses, outcome \in LookupOutcomes : getLocationFromIP(ip, outcome)
  \/ \E ip \in IpAddresses, outcome \in LookupOutcomes, queryOk \in BOOLEAN :
       nearestBranchByIP(ip, outcome, queryOk)
  \/ \E coords \in {NoLoc, "dev"}, queryOk \in BOOLEAN : getNearestBranch(coords, queryOk)
  \/ \E coords \in {NoLoc, "dev"}, queryOk \in BOOLEAN : resolveBanners(coords, queryOk)
  \/ createOrderBegin(1, LocateShapes, {0}, {0})
  \/ createOrderSave(1)
  \/ \E dbOk \in BOOLEAN : createOrderSaveAddress(1, dbOk)
  \/ \E ok \in BOOLEAN : createOrderCommit(1, ok)
  \/ \E found \in BOOLEAN : createOrderRetrieve(1, found)

SpecLocate == InitLocate /\ [][NextLocate]_vars


-----------------------------------------------------------------------------
(* Claims on the location lookups *)

\* the search radius (km) of a call site
RadiusOf(site) ==
  IF site = "createOrder" THEN OrderMaxDistanceKm
  ELSE IF site = "findNearestBranchByIP" THEN DefaultMaxDistanceKm
  ELSE NearestMaxDistanceKm

\* branch b is active and within the radius of the call site of location loc
WithinRadius(site, loc, b) ==
  branches[b].isActive /\ DistanceKm[loc][b] <= RadiusOf(site)

\* C18 as stated: the branch that findNearestBranchByIP, getNearestBranch,
\* resolveBanners and the branch assignment of createOrder yield is an active
\* branch within the search radius of the call site, or none
C18_AsStated ==
  /\ (located.state = "done"
      /\ located.handler \in {"findNearestBranchByIP", "getNearestBranch", "resolveBanners"}
      /\ located.branch # NoId)
       => WithinRadius(located.handler, located.location, located.branch)
  /\ \A c \in Callers :
       (Begun(c) /\ calls[c].assignedBranch # NoId)
         => IF calls[c].data.clientLocation # NoLoc
            THEN WithinRadius("createOrder", calls[c].data.clientLocation,
                              calls[c].assignedBranch)
            ELSE WithinRadius("findNearestBranchByIP", calls[c].ipLocation,
                              calls[c].assignedBranch)


\* C19 as stated: for every loopback, private or link-local address
\* getLocationFromIP returns the fallback location and makes no external call
C19_AsStated ==
  (located.state # "none" /\ located.handler = "getLocationFromIP"
   /\ located.ip.class # "public")
    => located.location = "fallback" /\ ~located.called

\* the call of caller c took the IP path and the lookup gave no location
LookupGaveNothing(c) ==
  /\ Begun(c)
  /\ calls[c].data.clientLocation = NoLoc
  /\ calls[c].data.customerIpAddress # NoId
  /\ calls[c].ipLocation = NoLoc

\* the request of caller c passes the validation steps and the schema
OtherwiseValid(c) ==
  /\ validationError(calls[c].data, calls[c].calculatedSubtotal) = "ok"
  /\ schemaValid(calls[c].order)

\* C20: whatever the external lookup does, getLocationFromIP does not throw
\* and returns the location found or null; a createOrder call without device
\* coordinates whose lookup gave null, and that is valid otherwise, is not
\* rejected for it: the branch stays unassigned, the call aborts only when
\* the save or the commit fails, and the order it persists has no branch
C20_LookupFailureDegrades ==
  /\ (located.state # "none" /\ located.handler = "getLocationFromIP")
       => /\ located.state = "done" /\ ~located.threw
          /\ located.outcome = "success" => located.location = "ipl"
          /\ located.outcome \in LookupOutcomes \ {"success"} => located.location = NoLoc
  /\ \A c \in Callers :
       (LookupGaveNothing(c) /\ OtherwiseValid(c))
         => /\ calls[c].assignedBranch = NoId
            /\ calls[c].pc = "aborted" => calls[c].error \in {"duplicate key", "commit failed"}
            /\ \A o \in PersistedBy(c) : o.branch = NoId

\* a lookup that timed out returned null, and a createOrder call whose
\* lookup gave null returned with its order persisted without branch
C20_Witness ==
  /\ located.state = "done" /\ located.handler = "getLocationFromIP"
  /\ located.called /\ located.outcome = "timeout" /\ located.location = NoLoc
  /\ \E c \in Callers :
       /\ LookupGaveNothing(c) /\ OtherwiseValid(c)
       /\ calls[c].pc = "returned"
       /\ \E o \in PersistedBy(c) : o.branch = NoId


-----------------------------------------------------------------------------
(* Order status handlers: updateOrderStatus, reverseOrderStatus and
   cancelOrder of OrderController and OrderService.  The id of an order is
   its order number. *)

\* the enum of OrderSchema.status
OrderStatuses == {"pending", "processing", "shipped", "delivered", "cancelled"}

statusProgression == <<"pending", "processing", "shipped", "delivered">>

\* statusProgression.indexOf(status), from 0, -1 when absent
indexOfStatus(status) ==
  LET at == {i \in DOMAIN statusProgression : statusProgression[i] = status}
  IN IF at = {} THEN 0 - 1 ELSE SetMin(at) - 1

\* the users the routes of the status handlers let in: the administrator,
\* two branch operators and two customers
StatusUsers ==
  Users \cup { [id |-> u, role |-> "customer", branchId |-> NoId] : u \in {"u1", "u2"} }

\* Order.findById: the stored orders with this id
ordersWithId(id) == {o \in orders : o.orderNumber = id}

\* updateFields of OrderService.updateOrderStatus: the body, with the
\* delivery date added when the status becomes delivered and the body has none
updateFieldsOf(updateData, now) ==
  IF /\ "status" \in updateData.has /\ updateData.status = "delivered"
     /\ ~("deliveredAt" \in updateData.has /\ updateData.deliveredAt # NULL)
  THEN [updateData EXCEPT !.has = @ \cup {"deliveredAt"}, !.deliveredAt = now]
  ELSE updateData

\* runValidators on the fields of the update: the status enum and the
\* minimum of total
updateValid(fields) ==
  /\ "status" \in fields.has => fields.status \in OrderStatuses
  /\ "total" \in fields.has => fields.total >= 0

\* the document after $set of the fields of the update
setFields(order, fields) ==
  [order EXCEPT
     !.status = IF "status" \in fields.has THEN fields.status ELSE @,
     !.deliveredAt = IF "deliveredAt" \in fields.has THEN fields.deliveredAt ELSE @,
     !.notes = IF "notes" \in fields.has THEN fields.notes ELSE @,
     !.total = IF "total" \in fields.has THEN fields.total ELSE @,
     !.branch = IF "branch" \in fields.has THEN fields.branch ELSE @,
     !.items = IF "items" \in fields.has THEN fields.items ELSE @]

\* OrderService.updateOrderStatus on a stored order: the error and the
\* stored orders afterwards
serviceUpdateOrderStatus(order, updateData, now) ==
  LET fields == updateFieldsOf(updateData, now)
  IN IF ~updateValid(fields)
     THEN [status |-> 500, message |-> "Validation failed", orders |-> orders]
     ELSE [status |-> 200, message |-> "ok",
           orders |-> (orders \ {order}) \cup {setFields(order, fields)}]

mkUpdate(has, status, total, branch, items, deliveredAt, notes) ==
  [has |-> has, status |-> status, total |-> total, branch |-> branch, items |-> items,
   deliveredAt |-> deliveredAt, notes |-> notes]

statusOnly(status) == mkUpdate({"status"}, status, 0, NoId, <<>>, NULL, "none")

\* OrderService.reverseOrderStatus on a stored order
serviceReverseOrderStatus(order, now) ==
  LET currentIndex == indexOfStatus(order.status)
  IN IF currentIndex <= 0 \/ order.status = "cancelled"
     THEN [status |-> 500, message |-> "Cannot reverse status", orders |-> orders]
     ELSE serviceUpdateOrderStatus(order, statusOnly(statusProgression[currentIndex]), now)

\* OrderService.cancelOrder on a stored order
serviceCancelOrder(order, now) ==
  IF order.status \in {"delivered", "cancelled"}
  THEN [status |-> 500, message |-> "Cannot cancel this order", orders |-> orders]
  ELSE serviceUpdateOrderStatus(
         order, mkUpdate({"status", "notes"}, "cancelled", 0, NoId, <<>>, NULL,
                         "Order cancelled"), now)

\* "Branch admins can only update orders in their branch"
notOwnBranch(user, order) ==
  user.role = "branch" /\ user.branchId # NoId /\ order.branch # user.branchId

refused(status, message) == [status |-> status, message |-> message, orders |-> orders]

\* one request to a status handler: the answer is recorded, the orders replaced
reply(handler, user, id, body, answer) ==
  /\ answered' = [state |-> IF answer.status = 200 THEN "done" ELSE "error",
                  handler |-> handler, user |-> user, id |-> id, body |-> body,
                  status |-> answer.status, message |-> answer.message]
  /\ orders' = answer.orders
  /\ UNCHANGED <<offers, products, branches, customers, calls, priced, resolved, served,
                 written, located>>

\* PUT /orders/admin/:orderId/status
updateOrderStatus(user, id, body) ==
  reply("updateOrderStatus", user, id, body,
        IF ordersWithId(id) = {} THEN refused(404, "Order not found")
        ELSE LET existingOrder == CHOOSE o \in ordersWithId(id) : TRUE
             IN IF notOwnBranch(user, existingOrder) THEN refused(403, "branch")
                ELSE serviceUpdateOrderStatus(existingOrder, body, Now))

\* PUT /orders/admin/:orderId/reverse-status
reverseOrderStatus(user, id) ==
  reply("reverseOrderStatus", user, id, statusOnly("none"),
        IF ordersWithId(id) = {} THEN refused(404, "Order not found")
        ELSE LET existingOrder == CHOOSE o \in ordersWithId(id) : TRUE
             IN IF notOwnBranch(user, existingOrder) THEN refused(403, "branch")
                ELSE serviceReverseOrderStatus(existingOrder, Now))

\* PUT /orders/cancel/:orderId and PUT /orders/admin/cancel/:orderId
cancelOrder(user, id) ==
  reply("cancelOrder", user, id, statusOnly("none"),
        IF ordersWithId(id) = {} THEN refused(404, "Order not found")
        ELSE LET existingOrder == CHOOSE o \in ordersWithId(id) : TRUE
             IN IF user.role # "admin" /\ existingOrder.customer # user.id
                THEN refused(403, "Access denied")
                ELSE serviceCancelOrder(existingOrder, Now))


-----------------------------------------------------------------------------
(* Orders and requests of the status handlers *)

\* the order createOrder commits for one p1 of customer u1, as number 1
committedOrder(branch) ==
  LET orderItems == <<orderItem(mkLine("p1", 1))>>
  IN [orderNumber |-> 1, customer |-> "u1", branch |-> branch, items |-> orderItems,
      subtotal |-> sumSubtotals(orderItems, 1), shipping |-> 1500 * Cent,
      total |-> sumSubtotals(orderItems, 1) + 1500 * Cent, by |-> 1,
      status |-> "pending", deliveredAt |-> NULL, notes |-> "none"]

\* bodies of PUT /orders/admin/:orderId/status: each status, one outside
\* the enum, a body without status, a delivery date of the client's, and
\* bodies that name other fields of the order
StatusBodies ==
  { statusOnly(st) : st \in OrderStatuses \cup {"confirmed"} }
  \cup
  { mkUpdate({}, "none", 0, NoId, <<>>, NULL, "none"),
    mkUpdate({"status", "deliveredAt"}, "delivered", 0, NoId, <<>>, Now - 1, "none"),
    mkUpdate({"status", "total"}, "processing", 0, NoId, <<>>, NULL, "none"),
    mkUpdate({"branch"}, "none", 0, "b2", <<>>, NULL, "none"),
    mkUpdate({"items"}, "none", 0, NoId, <<>>, NULL, "none") }

\* the order numbers a request names: the stored order and one that is not stored
OrderIds == 1 .. 2

InitStatus ==
  /\ offers = <<>>
  /\ products = ProductDocs
  /\ branches = BranchDocs
  /\ customers = [u \in CustomerIds |-> {}]
  /\ \E branch \in {NoId, "b1"} : orders = {committedOrder(branch)}
  /\ calls = [c \in Callers |-> [pc |-> "off"]]
  /\ priced = NoAnswer
  /\ resolved = NoAnswer
  /\ served = NoAnswer
  /\ written = NoAnswer
  /\ located = NoAnswer
  /\ answered = NoAnswer

\* any sequence of requests to the status handlers
NextStatus ==
  \/ \E user \in {u \in StatusUsers : u.role \in {"admin", "branch"}}, id \in OrderIds,
        body \in StatusBodies : updateOrderStatus(user, id, body)
  \/ \E user \in {u \in StatusUsers : u.role \in {"admin", "branch"}}, id \in OrderIds :
       reverseOrderStatus(user, id)
  \/ \E user \in {u \in StatusUsers : u.role \in {"admin", "customer"}}, id \in OrderIds :
       cancelOrder(user, id)

SpecStatus == InitStatus /\ [][NextStatus]_vars

-----------------------------------------------------------------------------
(* Claims on the status handlers *)

\* what createOrder froze in an order: the line items, the amounts, the branch
Snapshot(o) ==
  [items |-> o.items, subtotal |-> o.subtotal, shipping |-> o.shipping, total |-> o.total,
   branch |-> o.branch]

\* C21 as stated: no request to updateOrderStatus, reverseOrderStatus or
\* cancelOrder changes the line items, the subtotal, shipping and total, or
\* the assigned branch of a committed order
C21_AsStated ==
  [][ \A o \in orders : \A n \in orders' :
        n.orderNumber = o.orderNumber => Snapshot(n) = Snapshot(o) ]_vars


\* the stored order the last request named was cancelled before the request
HitCancelled(id) == \E o \in orders : o.orderNumber = id /\ o.status = "cancelled"

\* C28 as stated: once an order is cancelled, every cancelOrder and
\* reverseOrderStatus call on it fails and leaves it as it was, and no
\* request to the three handlers moves its status away from cancelled
C28_AsStated ==
  [][ /\ (/\ answered'.handler \in {"cancelOrder", "reverseOrderStatus"}
          /\ HitCancelled(answered'.id))
        => (answered'.state = "error" /\ orders' = orders)
      /\ \A o \in orders : \A n \in orders' :
           (n.orderNumber = o.orderNumber /\ o.status = "cancelled")
             => n.status = "cancelled" ]_vars

\* C29 as stated: the delivery date of an order is set exactly when its
\* status is delivered
C29_AsStated ==
  \A o \in orders : (o.deliveredAt # NULL) <=> (o.status = "delivered")


-----------------------------------------------------------------------------
(* Further claims on the location lookups *)

\* C22 as stated: for the stored branches, every location and every maximum
\* distance of a call site, the spatial query and the manual scan return the
\* same branch, and the manual scan returns none when no branch is active
C22_AsStated ==
  /\ \A loc \in DOMAIN DistanceKm :
       \A maxDistanceKm \in {NearestMaxDistanceKm, DefaultMaxDistanceKm, OrderMaxDistanceKm} :
         findNearestBranchByCoordinates(loc, maxDistanceKm, TRUE) = findNearestBranchManual(loc)
  /\ ActiveBranches = {} => \A loc \in DOMAIN DistanceKm : findNearestBranchManual(loc) = NoId


-----------------------------------------------------------------------------
(* The sort of resolveRelevantOffers on campaigns with dates *)

\* valid global campaigns with every priority, with and without a start
\* date, with and without an end date, on p1 or on p2
SortOffers(id) ==
  { mkOffer(id, mkVis(TRUE, st, en, {}, {}, NoId, pr, FALSE), discount15(ps))
      : pr \in 0 .. 1, st \in {NULL, 1}, en \in {NULL, Now, Now + 1},
        ps \in {<<"p1">>, <<"p2">>} }

InitSort ==
  /\ \E pick \in [1 .. 3 -> SortOffers(0)] :
       offers = [i \in 1 .. 3 |-> [pick[i] EXCEPT !.id = i]]
  /\ products = ResolveProductDocs
  /\ branches = BranchDocs
  /\ customers = <<>>
  /\ orders = {}
  /\ calls = <<>>
  /\ priced = NoAnswer
  /\ resolved = NoAnswer
  /\ served = NoAnswer
  /\ written = NoAnswer
  /\ located = NoAnswer
  /\ answered = NoAnswer

SpecSort == InitSort /\ [][NextResolve]_vars

\* the relevance score of campaign i for the cart of the request, 0 for
\* every campaign when the request has no cart
ScoreOf(i) ==
  IF cartProductsOf(resolved.request) = {} THEN 0
  ELSE relevanceScore(offers[i], cartProductsOf(resolved.request))

\* campaign j ranks strictly before campaign i: by priority descending,
\* then score descending, then start date ascending, then end date
\* ascending; a date decides only between two campaigns that both have it
RanksBefore(j, i) ==
  LET a == offers[j]
      b == offers[i]
      dated(x, y) == x # NULL /\ y # NULL
  IN \/ a.priority > b.priority
     \/ a.priority = b.priority /\ ScoreOf(j) > ScoreOf(i)
     \/ /\ a.priority = b.priority /\ ScoreOf(j) = ScoreOf(i)
        /\ dated(a.startsAt, b.startsAt) /\ a.startsAt < b.startsAt
     \/ /\ a.priority = b.priority /\ ScoreOf(j) = ScoreOf(i)
        /\ dated(a.startsAt, b.startsAt) /\ a.startsAt = b.startsAt
        /\ dated(a.endsAt, b.endsAt) /\ a.endsAt < b.endsAt

\* C23 as stated: in the list handed to the stacking loop no campaign stands
\* behind one that it ranks before
C23_AsStated ==
  resolved.state = "done"
  => \A k, l \in DOMAIN resolved.sorted :
       k < l => ~RanksBefore(resolved.sorted[l], resolved.sorted[k])


-----------------------------------------------------------------------------
(* Further claims on the effective price *)

\* the stored campaigns in the opposite order of return
Reversed(store) == [i \in DOMAIN store |-> store[Len(store) + 1 - i]]

\* the ids of the campaigns recorded in applicableOffers
RecordedIds(result) ==
  {result.applicableOffers[i].id : i \in DOMAIN result.applicableOffers}

\* C24 as stated: the campaigns recorded for the answered request are the
\* ones recorded when the store returns the campaigns in the opposite order
C24_AsStated ==
  (priced.state = "done" /\ ~priced.failed)
  => RecordedIds(priced.result)
       = RecordedIds(calculateEffectivePrices(Reversed(offers), priced.product,
                                              priced.branchId, Now))


-----------------------------------------------------------------------------
(* Further claims on createOrder *)

\* neither source resolves a branch for the call of caller c: there is no
\* active branch, or the request has no device coordinates and no location
\* derived from an IP address
NeitherResolves(c) ==
  \/ ActiveBranches = {}
  \/ calls[c].data.clientLocation = NoLoc /\ calls[c].ipLocation = NoLoc

\* C25: device coordinates that resolve a branch decide the assignment and
\* the IP address is not looked up; the branch nearest to the IP-derived
\* location is assigned only to a request without device coordinates; a
\* request for which neither source resolves a branch is not rejected for it:
\* the branch stays null, the call aborts only when the save or the commit
\* fails, and the order persisted carries the branch assigned
C25_DeviceBeforeIp ==
  \A c \in Callers :
    (Begun(c) /\ OtherwiseValid(c))
      => /\ (calls[c].data.clientLocation # NoLoc /\ ActiveBranches # {})
              => /\ calls[c].assignedBranch
                      = nearestOf(calls[c].data.clientLocation, ActiveBranches)
                 /\ calls[c].ipLocation = NoLoc
         /\ (calls[c].ipLocation # NoLoc /\ ActiveBranches # {})
              => /\ calls[c].data.clientLocation = NoLoc
                 /\ calls[c].assignedBranch = nearestOf(calls[c].ipLocation, ActiveBranches)
         /\ NeitherResolves(c)
              => /\ calls[c].assignedBranch = NoId
                 /\ calls[c].pc = "aborted"
                      => calls[c].error \in {"duplicate key", "commit failed"}
         /\ \A o \in PersistedBy(c) : o.branch = calls[c].assignedBranch

\* a request with device coordinates and an IP address returned with its
\* order assigned to b1, the branch nearest to the device, while b2 is the
\* branch nearest to the location of the IP address
C25_Witness ==
  \E c \in Callers :
    /\ calls[c].pc = "returned"
    /\ calls[c].data.clientLocation = "dev" /\ calls[c].data.customerIpAddress # NoId
    /\ ActiveBranches = BranchIds
    /\ nearestOf("dev", ActiveBranches) = "b1" /\ nearestOf("ipl", ActiveBranches) = "b2"
    /\ \E o \in PersistedBy(c) : o.branch = "b1"


\* C27 as stated: a call that ended with an error has no order persisted,
\* and a call that ended with an order persisted returned it
C27_AsStated ==
  \A c \in Callers :
    /\ calls[c].pc \in {"aborted", "failed"} => PersistedBy(c) = {}
    /\ (Ended(c) /\ PersistedBy(c) # {}) => calls[c].pc = "returned"


-----------------------------------------------------------------------------
(* createOrder with a product taken off sale *)

\* the Product documents with p2 inactive
DelistedProductDocs == [ProductDocs EXCEPT !["p2"].isActive = FALSE]

\* CartService.addToCart's check: "Validate product exists and is active"
addToCartRefuses(productId) ==
  productId \notin DOMAIN products \/ ~products[productId].isActive

InitDelisted ==
  /\ offers \in OrderOfferStores
  /\ products = DelistedProductDocs
  /\ branches \in BranchStores
  /\ customers \in {[u \in CustomerIds |-> sa] : sa \in {{}, {"home"}}}
  /\ orders = {}
  /\ calls = [c \in Callers |-> IF c = 1 THEN Idle ELSE [pc |-> "off"]]
  /\ priced = NoAnswer
  /\ resolved = NoAnswer
  /\ served = NoAnswer
  /\ written = NoAnswer
  /\ located = NoAnswer
  /\ answered = NoAnswer

SpecDelisted == InitDelisted /\ [][NextOrder]_vars

\* C30 as stated: no persisted order has a line item whose product
\* addToCart would refuse as inactive, and a call with such a line item fails
C30_AsStated ==
  \A c \in Callers :
    /\ \A o \in PersistedBy(c) :
         \A i \in DOMAIN o.items : ~addToCartRefuses(o.items[i].product)
    /\ (Ended(c) /\ \E i \in DOMAIN calls[c].data.items :
                      addToCartRefuses(calls[c].data.items[i].productId))
         => calls[c].pc = "aborted"


-----------------------------------------------------------------------------
(* Sequences of campaign writes, from an empty store *)

MaxStored == 2        \* campaigns created in one behaviour

\* the users of the sequences: the administrator and the operator of b1
SequenceUsers == {u \in Users : u.id \in {"admin", "op1"}}

\* bodies of POST /offers of the sequences: p1, global or for b1
SequenceCreateBodies ==
  { mkBody({}, "perItem", NULL, NULL, itemsOn(<<"p1">>), br) : br \in {NoId, "b1"} }

\* bodies of PUT /offers/:id of the sequences: new items, activation
SequenceUpdateBodies ==
  { mkBody({"items"}, "perItem", NULL, NULL, itemsOn(ps), NoId) : ps \in {<<"p1">>, <<"p2">>} }
  \cup
  { mkBody({"isActive"}, "perItem", NULL, NULL, <<>>, NoId) }

InitSequence ==
  /\ offers = <<>>
  /\ products = ResolveProductDocs
  /\ branches = BranchDocs
  /\ customers = <<>>
  /\ orders = {}
  /\ calls = <<>>
  /\ priced = NoAnswer
  /\ resolved = NoAnswer
  /\ served = NoAnswer
  /\ written = NoAnswer
  /\ located = NoAnswer
  /\ answered = NoAnswer

\* the answer was sent: the server takes the next write request
nextWrite ==
  /\ written.state # "none"
  /\ written' = NoAnswer
  /\ UNCHANGED <<offers, products, branches, customers, orders, calls, priced, resolved,
                 served, located, answered>>

\* any sequence of createOffer, updateOffer, extendOffer and
\* toggleOfferStatus requests
NextSequence ==
  \/ \E user \in SequenceUsers, body \in SequenceCreateBodies :
       Len(offers) < MaxStored /\ createOffer(user, body)
  \/ \E user \in SequenceUsers, id \in 1 .. MaxStored, body \in SequenceUpdateBodies :
       updateOffer(user, id, body)
  \/ \E user \in SequenceUsers, id \in 1 .. MaxStored : extendOffer(user, id, Now + 1)
  \/ \E user \in SequenceUsers, id \in 1 .. MaxStored, isActive \in BOOLEAN :
       toggleOfferStatus(user, id, isActive)
  \/ nextWrite

SpecSequence == InitSequence /\ [][NextSequence]_vars

\* two campaigns whose scopes overlap: one of them is global, or both are of
\* the same branch
ScopesOverlap(a, b) == a.branch = NoId \/ b.branch = NoId \/ a.branch = b.branch

\* C26 as stated: no two stored campaigns that are both active and valid now
\* in overlapping scopes list the same product in their items
C26_AsStated ==
  \A i, j \in DOMAIN offers :
    (i < j /\ ClaimValid(offers[i]) /\ ClaimValid(offers[j])
     /\ ScopesOverlap(offers[i], offers[j]))
      => itemProducts(offers[i]) \cap itemProducts(offers[j]) = {}

====
